---- MODULE Spec2Model ----
(***************************************************************************)
(* A model of prettier-plugin-abap: the layout pipeline                    *)
(*   parseAbap (statement builder + indentation engine)                    *)
(*   printProgram (closing-bracket repositioning, comment merging,         *)
(*                 needless-spaces overrides)                              *)
(*   printStatement (line rendering)                                       *)
(* over documents given as lines of placed tokens.  A token text is a      *)
(* string; a comment value is a sequence of one-character strings.         *)
(* Columns are 0-based, rows 1-based, as in parsers/abap.ts calcLocation.  *)
(***************************************************************************)
EXTENDS Integers, Sequences, FiniteSets, TLC

VARIABLES
  opts,                 \* AbapPluginOptions of the invocation
  src,                  \* the document being formatted (lines of placed tokens)
  pass,                 \* 1: formatting the input, 2: formatting the first output
  pc,                   \* position of the invocation in the pipeline
  raw,                  \* the tokenizer's statements (abapFile.getStatements())
  levels,               \* result of computeIndentationLevels
  body,                 \* AbapProgram.body
  touched,              \* touchedStatements of applyClosingBracketsPosition
  postComments,         \* module-level WeakMap of closingBracketsPositionRule
  activeNeedlessSpaces, \* module-level override table of printers/abap.ts
  idx,                  \* index of the next statement printProgram prints
  docs,                 \* the lines printed so far
  out1,                 \* the output of pass 1
  emitted               \* the comments printed so far: where from, what text, which line

vars == <<opts, src, pass, pc, raw, levels, body, touched, postComments,
          activeNeedlessSpaces, idx, docs, out1, emitted>>

-----------------------------------------------------------------------------
(* Bounds of the model *)

MaxGap == 3

(* Program constants *)

DefaultTabWidth == 2

KEEP_EXISTING_INDENT == 0 - 1

-----------------------------------------------------------------------------
(* Small helpers *)

Max(a, b) == IF a >= b THEN a ELSE b

Min(a, b) == IF a <= b THEN a ELSE b

Range(s) == {s[i] : i \in DOMAIN s}

Last(s) == s[Len(s)]

Front(s) == SubSeq(s, 1, Len(s) - 1)

-----------------------------------------------------------------------------
(* Characters and comment values *)

COMMENT_SIGN == "\""

SP == " "

Letters == {"u", "x", "y", "U", "X", "Y"}

Digits == {"1"}

isLetterOrDigit(char) == char \in Letters \cup Digits

RECURSIVE CountLeadingWs(_)
CountLeadingWs(s) ==
  IF s = <<>> \/ Head(s) # SP THEN 0 ELSE 1 + CountLeadingWs(Tail(s))

trimStart(s) == SubSeq(s, CountLeadingWs(s) + 1, Len(s))

RECURSIVE trimEnd(_)
trimEnd(s) ==
  IF s = <<>> \/ Last(s) # SP THEN s ELSE trimEnd(Front(s))

trim(s) == trimEnd(trimStart(s))

startsWith(s, char) == s # <<>> /\ Head(s) = char

\* formatCommentValue(rawValue, options)
formatCommentValue(rawValue, o) ==
  IF o.abapSpaceAfterCommentSign = FALSE THEN rawValue
  ELSE LET n    == CountLeadingWs(rawValue)
           lead == SubSeq(rawValue, 1, n)
           rest == SubSeq(rawValue, n + 1, Len(rawValue))
       IN IF ~startsWith(rest, COMMENT_SIGN) THEN rawValue
          ELSE IF Len(rest) <= 1 THEN rawValue
          ELSE IF ~isLetterOrDigit(rest[2]) THEN rawValue
          ELSE lead \o <<COMMENT_SIGN, SP>> \o Tail(rest)

needsSpaceBeforeCommentSign(o) == o.abapSpaceBeforeCommentSign # FALSE

-----------------------------------------------------------------------------
(* Comments of the syntax tree (AbapComment).  origin lists the source     *)
(* comment values a comment was made of; the program never reads it.       *)

NoComment == [value |-> <<>>, inline |-> FALSE, line |-> 0, col |-> 0, origin |-> <<>>]

NoRawComment == [value |-> <<>>, row |-> 0, col |-> 0]

-----------------------------------------------------------------------------
(* The tokenizer: lines of placed tokens to statements.  A statement ends  *)
(* at its period; a comment is a statement of its own, delivered as soon   *)
(* as it is read (before the statement it interrupts); pragmas are kept    *)
(* apart from the statement's tokens.  Positions are the tokenizer's:      *)
(* getRow() and getCol() are 1-based, getEnd() is the column after the     *)
(* token's last character.                                                 *)

UpperTable ==
  [t \in {"if", "else", "endif", "clear", "data", "type"} |->
     CASE t = "if" -> "IF" [] t = "else" -> "ELSE" [] t = "endif" -> "ENDIF"
       [] t = "clear" -> "CLEAR" [] t = "data" -> "DATA" [] t = "type" -> "TYPE"]

toUpperCase(text) == IF text \in DOMAIN UpperTable THEN UpperTable[text] ELSE text

LowerTable ==
  [t \in {"IF", "ELSE", "ENDIF", "CLEAR", "DATA", "TYPE"} |->
     CASE t = "IF" -> "if" [] t = "ELSE" -> "else" [] t = "ENDIF" -> "endif"
       [] t = "CLEAR" -> "clear" [] t = "DATA" -> "data" [] t = "TYPE" -> "type"]

toLowerCase(text) == IF text \in DOMAIN LowerTable THEN LowerTable[text] ELSE text

KEYWORDS == {"IF", "ELSE", "ENDIF", "CLEAR", "DATA", "TYPE"}

StatementKind(toks) ==
  LET u == toUpperCase(toks[1].text)
  IN CASE u = "IF" -> "If"
       [] u = "ELSE" -> "Else"
       [] u = "ENDIF" -> "EndIf"
       [] u = "CLEAR" -> "Clear"
       [] OTHER -> "Unknown"

\* getColon() of a statement that is not chained
NoColon == <<>>

\* A statement of a chain: colon is the position of the chain's colon
RawChained(toks, pragmas, colon) ==
  [kind |-> StatementKind(toks), toks |-> toks, pragmas |-> pragmas, cmt |-> NoRawComment,
   colon |-> colon]

RawStatement(toks, pragmas) == RawChained(toks, pragmas, NoColon)

RawComment(value, row, col) ==
  [kind |-> "Comment", toks |-> <<>>, pragmas |-> <<>>,
   cmt |-> [value |-> value, row |-> row, col |-> col], colon |-> NoColon]

\* The tokenizer outside a chain: no prefix, no colon
NoPrefix == [prefix |-> <<>>, colon |-> NoColon]

\* chain holds the tokens in front of the colon and the colon's position
\* once a colon was read: every statement of the chain starts with these
\* tokens and ends with its comma or with the period
RECURSIVE TokenizeFrom(_, _, _, _, _, _, _)
RECURSIVE TokenStep(_, _, _, _, _, _, _, _)
TokenizeFrom(text, row, k, cur, prag, chain, result) ==
  IF row > Len(text)
  THEN IF cur = chain.prefix THEN result
       ELSE Append(result, RawChained(cur, prag, chain.colon))
  ELSE
    IF k > Len(text[row].toks)
    THEN TokenizeFrom(text, row + 1, 1, cur, prag, chain,
           IF text[row].cmt = <<>> THEN result
           ELSE Append(result, RawComment(text[row].cmt, row, text[row].ccol + 1)))
    ELSE TokenStep(text, row, k, cur, prag, chain, result,
                   [text |-> text[row].toks[k].text, role |-> text[row].toks[k].role,
                    row |-> row, col |-> text[row].toks[k].col + 1])

\* One token rt of the source read by the tokenizer
TokenStep(text, row, k, cur, prag, chain, result, rt) ==
  IF rt.role = "pragma"
  THEN TokenizeFrom(text, row, k + 1, cur, Append(prag, rt), chain, result)
  ELSE IF rt.role = "colon" /\ chain.colon = NoColon
  THEN TokenizeFrom(text, row, k + 1, cur, prag,
                    [prefix |-> cur, colon |-> <<rt.row, rt.col>>], result)
  ELSE IF rt.text = "," /\ chain.colon # NoColon
  THEN TokenizeFrom(text, row, k + 1, chain.prefix, <<>>, chain,
                    Append(result, RawChained(Append(cur, rt), prag, chain.colon)))
  ELSE IF rt.text = "."
  THEN TokenizeFrom(text, row, k + 1, <<>>, <<>>, NoPrefix,
                    Append(result, RawChained(Append(cur, rt), prag, chain.colon)))
  ELSE TokenizeFrom(text, row, k + 1, Append(cur, rt), prag, chain, result)

Tokenize(text) == TokenizeFrom(text, 1, 1, <<>>, <<>>, NoPrefix, <<>>)

\* statement.getTokens() positions
RawFirstRow(st) == IF st.kind = "Comment" THEN st.cmt.row ELSE st.toks[1].row

RawLastRow(st) == IF st.kind = "Comment" THEN st.cmt.row ELSE Last(st.toks).row

RawFirstCol(st) == IF st.kind = "Comment" THEN st.cmt.col ELSE st.toks[1].col

-----------------------------------------------------------------------------
(* rules/indentRule.ts *)

DEDENT_BEFORE ==
  {"EndIf", "EndWhile", "EndLoop", "EndSelect", "EndTry", "EndCase", "EndDo",
   "EndFunction", "EndMethod", "EndClass", "EndModule", "EndForm", "EndInterface",
   "EndChain", "EndAt", "EndExec", "EndCatch", "EndTestInjection", "EndTestSeam"}

MIDDLE_KEYWORDS ==
  {"Else", "ElseIf", "Catch", "Cleanup", "When", "WhenType", "WhenOthers"}

INDENT_AFTER ==
  {"If", "Else", "ElseIf", "While", "Loop", "Select", "SelectLoop", "Do", "Try",
   "Case", "CaseType", "Catch", "Cleanup", "ClassDefinition", "ClassImplementation",
   "MethodImplementation", "FunctionModule", "Module", "Define", "Form", "TestSeam",
   "TestInjection"}

ALIGN_WITH_NEXT ==
  {"Else", "ElseIf", "Catch", "Cleanup", "When", "WhenType", "WhenOthers"}

isStandaloneComment(statement) == statement.kind = "Comment"

\* hasBlankLineAbove(statement, previous); index 0 has no previous
hasBlankLineAbove(statements, i) ==
  IF i <= 1 THEN FALSE
  ELSE RawFirstRow(statements[i]) - RawLastRow(statements[i - 1]) >= 2

RECURSIVE SelectBlocksFrom(_, _, _, _)
SelectBlocksFrom(statements, i, stack, result) ==
  IF i > Len(statements) THEN result
  ELSE LET type == statements[i].kind IN
       IF type \in {"Select", "SelectLoop"}
       THEN SelectBlocksFrom(statements, i + 1, Append(stack, i), result)
       ELSE IF type = "EndSelect" /\ stack # <<>>
       THEN SelectBlocksFrom(statements, i + 1, Front(stack), result \cup {Last(stack)})
       ELSE SelectBlocksFrom(statements, i + 1, stack, result)

\* findSelectBlocks: the (1-based) indexes of the SELECTs closed by an ENDSELECT
findSelectBlocks(statements) == SelectBlocksFrom(statements, 1, <<>>, {})

RECURSIVE AlignmentCursor(_, _)
AlignmentCursor(statements, cursor) ==
  IF cursor > Len(statements) THEN cursor
  ELSE IF isStandaloneComment(statements[cursor]) /\ ~hasBlankLineAbove(statements, cursor)
  THEN AlignmentCursor(statements, cursor + 1)
  ELSE cursor

NoAlignment == [targetIndex |-> 0, alignDepth |-> 0]

findAlignmentTargetWithoutBlankLine(statements, startIndex, currentDepth) ==
  IF currentDepth <= 0 THEN NoAlignment
  ELSE IF AlignmentCursor(statements, startIndex + 1) > Len(statements) THEN NoAlignment
  ELSE IF statements[AlignmentCursor(statements, startIndex + 1)].kind \notin ALIGN_WITH_NEXT
  THEN NoAlignment
  ELSE [targetIndex |-> AlignmentCursor(statements, startIndex + 1),
        alignDepth |-> Max(currentDepth - 1, 0)]

\* findAlignmentTarget(statements, startIndex, currentDepth), indexes 1-based
findAlignmentTarget(statements, startIndex, currentDepth) ==
  IF currentDepth <= 0 THEN NoAlignment
  ELSE IF ~hasBlankLineAbove(statements, startIndex) THEN NoAlignment
  ELSE LET cursor == AlignmentCursor(statements, startIndex + 1) IN
       IF cursor > Len(statements) THEN NoAlignment
       ELSE IF statements[cursor].kind \notin ALIGN_WITH_NEXT THEN NoAlignment
       ELSE [targetIndex |-> cursor, alignDepth |-> Max(currentDepth - 1, 0)]

\* Whether the statement raises the depth: INDENT_AFTER, a SELECT only when
\* findSelectBlocks holds it
shouldIndentAfter(statements, index, selectBlocks) ==
  LET type == statements[index].kind
  IN type \in INDENT_AFTER
     /\ (type \notin {"Select", "SelectLoop"} \/ index \in selectBlocks)

\* The loop of computeIndentationLevels; activeAlignTarget 0 and
\* activeAlignDepth -1 stand for undefined
RECURSIVE IndentLoop(_, _, _, _, _, _)
IndentLoop(statements, selectBlocks, result, depth, activeAlignDepth, activeAlignTarget) ==
  LET index == Len(result) + 1 IN
  IF index > Len(statements) THEN result
  ELSE
    LET reached == activeAlignTarget # 0 /\ index >= activeAlignTarget
        aTarget == IF reached THEN 0 ELSE activeAlignTarget
        aDepth  == IF reached THEN 0 - 1 ELSE activeAlignDepth
        type    == statements[index].kind
        d       == IF type \in DEDENT_BEFORE \cup MIDDLE_KEYWORDS
                   THEN Max(depth - 1, 0) ELSE depth
        alignment == IF aDepth = 0 - 1 /\ isStandaloneComment(statements[index])
                     THEN findAlignmentTarget(statements, index, d)
                     ELSE NoAlignment
        indentLevel == IF aDepth # 0 - 1 THEN aDepth
                       ELSE IF alignment # NoAlignment THEN alignment.alignDepth
                       ELSE d
        d2 == IF shouldIndentAfter(statements, index, selectBlocks) THEN d + 1 ELSE d
    IN IndentLoop(statements, selectBlocks, Append(result, indentLevel), d2,
                  IF alignment # NoAlignment THEN alignment.alignDepth ELSE aDepth,
                  IF alignment # NoAlignment THEN alignment.targetIndex ELSE aTarget)

computeIndentationLevels(statements) ==
  IndentLoop(statements, findSelectBlocks(statements), <<>>, 0, 0 - 1, 0)

-----------------------------------------------------------------------------
(* parsers/abap.ts: the statement builder *)

\* calcLocation: startColumn = getCol() - 1, endColumn = getEnd().getCol() - 1
\* convertToken: hasFollowingLineBreak = isNewLineBetween(token, next)
convertToken(token, hasNext, next, id) ==
  [id   |-> id,
   text |-> token.text,
   role |-> token.role,
   line |-> token.row,
   col  |-> token.col - 1,
   ecol |-> (token.col + Len(token.text)) - 1,
   brk  |-> IF hasNext THEN token.row < next.row ELSE FALSE]

convertTokens(tokens) ==
  [i \in 1..Len(tokens) |->
     convertToken(tokens[i], i < Len(tokens),
                  IF i < Len(tokens) THEN tokens[i + 1] ELSE tokens[i], 0)]

convertPragmas(pragmas) ==
  [i \in 1..Len(pragmas) |-> convertToken(pragmas[i], FALSE, pragmas[i], 0)]

mergeTokensWithPragmas(tokens, pragmas) ==
  IF pragmas = <<>> THEN tokens
  ELSE IF tokens = <<>> THEN pragmas
  ELSE LET last == Last(tokens) IN
       IF last.role = "punctuation" \/ last.text = "," \/ last.text = "."
       THEN Front(tokens) \o pragmas \o <<last>>
       ELSE tokens \o pragmas

\* Token identity: the statement's index in the program and the token's place
WithIds(tokens, si) == [i \in 1..Len(tokens) |-> [tokens[i] EXCEPT !.id = <<si, i>>]]

convertCommentNode(statement) ==
  [value  |-> statement.cmt.value,
   inline |-> FALSE,
   line   |-> statement.cmt.row,
   col    |-> statement.cmt.col - 1,
   origin |-> <<statement.cmt.value>>]

isTrailingComment(statement) ==
  isStandaloneComment(statement) /\ startsWith(trimStart(statement.cmt.value), COMMENT_SIGN)

\* calcStatementLocation of the statement's own tokens
calcStatementLocation(statement) ==
  [startLine   |-> RawFirstRow(statement),
   startColumn |-> RawFirstCol(statement) - 1,
   endLine     |-> RawLastRow(statement)]

\* A statement that is no chain
NoChain == [present |-> FALSE, keyword |-> <<>>, entries |-> <<>>]

\* convertSingleStatement + buildStatementObject.  A Comment statement's
\* only token is its comment, which extractTrailingComment takes out.
convertSingleStatement(statement, indentLevel, si) ==
  [kind            |-> statement.kind,
   tokens          |-> WithIds(mergeTokensWithPragmas(convertTokens(statement.toks),
                                                      convertPragmas(statement.pragmas)), si),
   loc             |-> calcStatementLocation(statement),
   indentLevel     |-> indentLevel,
   trailingComment |-> IF isStandaloneComment(statement)
                       THEN [convertCommentNode(statement) EXCEPT !.inline = TRUE]
                       ELSE NoComment,
   chain           |-> NoChain]

\* The end of the group convertStatements collects from cursor on: the
\* statements with the same colon, and the comments between and behind them
RECURSIVE GroupEnd(_, _, _)
GroupEnd(statements, cursor, colonKey) ==
  IF cursor > Len(statements) THEN cursor
  ELSE IF statements[cursor].colon = colonKey \/ isStandaloneComment(statements[cursor])
  THEN GroupEnd(statements, cursor + 1, colonKey)
  ELSE cursor

\* Number.MAX_SAFE_INTEGER, of which only this is used: it is larger than
\* every line number
Number_MAX_SAFE_INTEGER == 2147483647

\* getEntryStartLine of an entry that still holds its tokens
getEntryStartLine(entry) ==
  IF entry.type = "entry"
  THEN IF entry.tokens # <<>> THEN entry.tokens[1].line ELSE Number_MAX_SAFE_INTEGER
  ELSE entry.comment.line

ChainEntry(tokens, trailingComment) ==
  [type |-> "entry", tokens |-> tokens, trailingComment |-> trailingComment,
   comment |-> NoComment]

CommentEntry(comment) ==
  [type |-> "comment", tokens |-> <<>>, trailingComment |-> NoComment, comment |-> comment]

\* The loop of convertColonGroup over the group, from at on (1-based)
RECURSIVE ColonLoop(_, _, _, _)
ColonLoop(group, at, pendingTrailing, entries) ==
  IF at > Len(group)
  THEN IF pendingTrailing # NoComment
       THEN Append(entries, CommentEntry([pendingTrailing EXCEPT !.inline = FALSE]))
       ELSE entries
  ELSE IF group[at].colon # NoColon
  THEN IF group[at].toks = <<>>
       THEN ColonLoop(group, at + 1, pendingTrailing, entries)
       ELSE ColonLoop(group, at + 1, NoComment,
              Append(entries,
                     ChainEntry(mergeTokensWithPragmas(Tail(convertTokens(group[at].toks)),
                                                       convertPragmas(group[at].pragmas)),
                                pendingTrailing)))
  ELSE IF /\ isTrailingComment(group[at])
          /\ at < Len(group)
          /\ group[at + 1].colon # NoColon
          /\ at > 1
          /\ group[at - 1].colon # NoColon
  THEN ColonLoop(group, at + 1, [convertCommentNode(group[at]) EXCEPT !.inline = TRUE],
                 entries)
  ELSE ColonLoop(group, at + 1, pendingTrailing,
                 Append(entries, CommentEntry(convertCommentNode(group[at]))))

\* entries.sort by getEntryStartLine: a stable sort
RECURSIVE InsertEntry(_, _)
InsertEntry(sorted, x) ==
  IF sorted = <<>> THEN <<x>>
  ELSE IF getEntryStartLine(x) < getEntryStartLine(Last(sorted))
  THEN Append(InsertEntry(Front(sorted), x), Last(sorted))
  ELSE Append(sorted, x)

RECURSIVE SortEntries(_)
SortEntries(entries) ==
  IF entries = <<>> THEN entries
  ELSE InsertEntry(SortEntries(Front(entries)), Last(entries))

\* allTokens: entries.flatMap of the entries' tokens
RECURSIVE FlatTokens(_)
FlatTokens(entries) ==
  IF entries = <<>> THEN <<>> ELSE FlatTokens(Front(entries)) \o Last(entries).tokens

\* The entries as the statement holds them: an entry's tokens are tokens of
\* the statement (the same objects), from index first to index last
RECURSIVE ShareTokens(_)
ShareTokens(entries) ==
  IF entries = <<>> THEN <<>>
  ELSE Append(ShareTokens(Front(entries)),
              [type            |-> Last(entries).type,
               first           |-> Len(FlatTokens(Front(entries))) + 1,
               last            |-> Len(FlatTokens(entries)),
               trailingComment |-> Last(entries).trailingComment,
               comment         |-> Last(entries).comment])

\* The last statement of the group that the loop of convertColonGroup takes
\* as lastStatementWithTokens
RECURSIVE LastStatementWithTokens(_, _)
LastStatementWithTokens(group, at) ==
  IF at = 1 THEN 1
  ELSE IF group[at].colon # NoColon /\ group[at].toks = <<>>
  THEN LastStatementWithTokens(group, at - 1)
  ELSE at

\* The statement convertColonGroup builds from the sorted entries
ChainStatement(group, indentLevel, si, entries) ==
  [kind            |-> group[1].kind,
   tokens          |-> WithIds(FlatTokens(entries), si),
   loc             |-> [startLine   |-> RawFirstRow(group[1]),
                        startColumn |-> RawFirstCol(group[1]) - 1,
                        endLine     |-> RawLastRow(group[LastStatementWithTokens(
                                                           group, Len(group))])],
   indentLevel     |-> indentLevel,
   trailingComment |-> IF entries # <<>> THEN Last(entries).trailingComment ELSE NoComment,
   chain           |-> [present  |-> TRUE,
                        keyword  |-> convertTokens(group[1].toks)[1],
                        entries  |-> ShareTokens(entries)]]

\* convertColonGroup of a group whose keyword statement has tokens
convertColonGroup(group, indentLevel, si) ==
  ChainStatement(group, indentLevel, si, SortEntries(ColonLoop(group, 1, NoComment, <<>>)))

\* entry.tokens
EntryTokens(statement, entry) == SubSeq(statement.tokens, entry.first, entry.last)

RECURSIVE ConvertLoop(_, _, _, _, _)
ConvertLoop(statements, indentLevels, index, pendingTrailing, result) ==
  IF index > Len(statements) THEN result
  ELSE LET statement == statements[index] IN
       IF isStandaloneComment(statement) /\ isTrailingComment(statement)
          /\ index < Len(statements)
       THEN ConvertLoop(statements, indentLevels, index + 1,
                        [convertCommentNode(statement) EXCEPT !.inline = TRUE], result)
       ELSE IF statement.colon # NoColon
       THEN ConvertLoop(statements, indentLevels,
                        GroupEnd(statements, index, statement.colon), pendingTrailing,
                        Append(result,
                               convertColonGroup(
                                 SubSeq(statements, index,
                                        GroupEnd(statements, index, statement.colon) - 1),
                                 indentLevels[index], Len(result) + 1)))
       ELSE LET converted == convertSingleStatement(statement, indentLevels[index],
                                                    Len(result) + 1)
                withPending == IF pendingTrailing # NoComment
                               THEN [converted EXCEPT !.trailingComment = pendingTrailing]
                               ELSE converted
            IN ConvertLoop(statements, indentLevels, index + 1, NoComment,
                           Append(result, withPending))

convertStatements(statements, indentLevels) ==
  ConvertLoop(statements, indentLevels, 1, NoComment, <<>>)

-----------------------------------------------------------------------------
(* rules/closingBracketsPositionRule.ts *)

CLOSING_TOKENS == {")", "]"}

PERIOD == "."

\* A variant of shouldAttach that never attaches
shouldAttachNever(previous) == FALSE

shouldAttach(previous) ==
  IF ~previous.brk THEN FALSE
  ELSE IF previous.role = "comment" THEN FALSE
  ELSE TRUE

shouldKeepTogether(next) ==
  \/ next.text = PERIOD
  \/ next.text \in CLOSING_TOKENS
  \/ next.role = "pragma"
  \/ next.role = "punctuation"

\* The loop of adjustClosingBracketsInTokens from index on (1-based, so the
\* loop starts at 2); the tokens carry the flags written so far
RECURSIVE AdjustLoop(_, _, _)
AdjustLoop(tokens, index, changed) ==
  IF index > Len(tokens) THEN [tokens |-> tokens, changed |-> changed]
  ELSE
    LET current  == tokens[index]
        previous == tokens[index - 1]
        isClosingBracket  == current.text \in CLOSING_TOKENS
        isPeriod          == current.text = PERIOD
        shouldMoveBracket == isClosingBracket /\ shouldAttach(previous)
        shouldMovePeriod  == isPeriod /\ shouldAttach(previous)
                             /\ previous.text \in CLOSING_TOKENS
    IN IF ~shouldMoveBracket /\ ~shouldMovePeriod
       THEN AdjustLoop(tokens, index + 1, changed)
       ELSE
         LET hasNext == index < Len(tokens)
             next    == IF hasNext THEN tokens[index + 1] ELSE current
             brk1    == IF shouldMoveBracket /\ hasNext /\ next.line = current.line
                           /\ ~shouldKeepTogether(next)
                        THEN TRUE ELSE current.brk
             brk2    == IF shouldMoveBracket /\ hasNext /\ next.text = PERIOD /\ brk1
                        THEN FALSE ELSE brk1
         IN AdjustLoop([tokens EXCEPT ![index - 1].brk = FALSE, ![index].brk = brk2],
                       index + 1,
                       IF previous.brk THEN TRUE ELSE changed)

\* A variant of adjustClosingBracketsInTokens that moves nothing
adjustClosingBracketsInTokensNever(tokens) == [tokens |-> tokens, changed |-> FALSE]

adjustClosingBracketsInTokens(tokens) ==
  IF Len(tokens) < 2 THEN [tokens |-> tokens, changed |-> FALSE]
  ELSE AdjustLoop(tokens, 2, FALSE)

NoParts == [value |-> <<>>, isPseudo |-> FALSE, defined |-> FALSE]

extractCommentParts(comment) ==
  LET trimmed == trimStart(comment.value) IN
  IF ~startsWith(trimmed, COMMENT_SIGN) THEN NoParts
  ELSE LET withoutQuote == trimStart(Tail(trimmed))
       IN [value    |-> trim(withoutQuote),
           isPseudo |-> startsWith(withoutQuote, "#"),
           defined  |-> TRUE]

RECURSIVE PeriodIndexFrom(_, _)
PeriodIndexFrom(tokens, index) ==
  IF index < 2 THEN 0
  ELSE IF tokens[index].text = PERIOD THEN index
  ELSE PeriodIndexFrom(tokens, index - 1)

\* A variant of forcePeriodLine that moves the period away from the
\* statement instead of flagging the token before it
forcePeriodLineDroppingPeriod(statement) ==
  LET tokens == statement.tokens IN
  IF Len(tokens) < 2 THEN statement
  ELSE LET index == PeriodIndexFrom(tokens, Len(tokens)) IN
       IF index = 0 THEN statement
       ELSE [statement EXCEPT
               !.tokens = [k \in 1..(Len(tokens) - 1) |->
                             IF k < index THEN tokens[k] ELSE tokens[k + 1]]]

forcePeriodLine(statement) ==
  LET tokens == statement.tokens IN
  IF Len(tokens) < 2 THEN statement
  ELSE LET index == PeriodIndexFrom(tokens, Len(tokens)) IN
       IF index = 0 THEN statement
       ELSE [statement EXCEPT !.tokens[index - 1].brk = TRUE]

\* A variant of combinedText that puts next's text first
combineCommentTextsReversed(currentParts, nextParts) ==
  IF currentParts.defined
  THEN nextParts.value \o <<";", SP>> \o currentParts.value
  ELSE nextParts.value

\* combinedText of mergeTrailingComments
combineCommentTexts(currentParts, nextParts) ==
  IF currentParts.defined
  THEN currentParts.value \o <<";", SP>> \o nextParts.value
  ELSE nextParts.value

MapDelete(map, key) == [k \in (DOMAIN map) \ {key} |-> map[k]]

MapSet(map, key, value) == [k \in (DOMAIN map) \cup {key} |-> IF k = key THEN value ELSE map[k]]

\* The loop of mergeTrailingComments from pair (i, i + 1) on
RECURSIVE MergeLoop(_, _, _, _)
MergeLoop(statements, touchedSet, posts, i) ==
  IF i > Len(statements) - 1 THEN [body |-> statements, posts |-> posts]
  ELSE
    LET current     == statements[i]
        next        == statements[i + 1]
        nextComment == next.trailingComment
    IN IF i \notin touchedSet THEN MergeLoop(statements, touchedSet, posts, i + 1)
       ELSE IF nextComment = NoComment \/ ~nextComment.inline
       THEN MergeLoop(statements, touchedSet, posts, i + 1)
       ELSE IF nextComment.line # current.loc.endLine
       THEN MergeLoop(statements, touchedSet, posts, i + 1)
       ELSE
         LET nextParts      == extractCommentParts(nextComment)
             currentComment == current.trailingComment
             currentParts   == IF currentComment # NoComment
                               THEN extractCommentParts(currentComment)
                               ELSE NoParts
         IN IF ~nextParts.defined THEN MergeLoop(statements, touchedSet, posts, i + 1)
            ELSE IF nextParts.isPseudo \/ (currentParts.defined /\ currentParts.isPseudo)
            THEN MergeLoop(
                   [statements EXCEPT ![i] = forcePeriodLine(current),
                                      ![i + 1].trailingComment = NoComment],
                   touchedSet, MapSet(posts, i, nextComment), i + 1)
            ELSE
              LET combinedText == combineCommentTexts(currentParts, nextParts)
                  baseComment  == IF currentComment # NoComment
                                  THEN currentComment ELSE nextComment
                  merged == [baseComment EXCEPT
                               !.value  = <<COMMENT_SIGN, SP>> \o combinedText,
                               !.origin = currentComment.origin \o nextComment.origin]
              IN MergeLoop(
                   [statements EXCEPT ![i].trailingComment = merged,
                                      ![i + 1].trailingComment = NoComment],
                   touchedSet, posts, i + 1)

mergeTrailingComments(statements, touchedSet, posts) ==
  MergeLoop(statements, touchedSet, posts, 1)

\* The first loop of applyClosingBracketsPosition: every statement's entry
\* in postComments is deleted and its tokens are adjusted
\* tokens with the tokens from index first to index last replaced
WithEntryTokens(tokens, first, last, entryTokens) ==
  [k \in 1..Len(tokens) |->
     IF k >= first /\ k <= last THEN entryTokens[k - first + 1] ELSE tokens[k]]

\* adjustClosingBracketsInTokens on the tokens of the first n chain entries,
\* which are tokens of the statement
RECURSIVE AdjustEntries(_, _, _)
AdjustEntries(tokens, entries, n) ==
  IF n = 0 THEN tokens
  ELSE IF entries[n].type # "entry" \/ entries[n].first > entries[n].last
  THEN AdjustEntries(tokens, entries, n - 1)
  ELSE WithEntryTokens(AdjustEntries(tokens, entries, n - 1),
                       entries[n].first, entries[n].last,
                       adjustClosingBracketsInTokens(
                         SubSeq(AdjustEntries(tokens, entries, n - 1),
                                entries[n].first, entries[n].last)).tokens)

AdjustAll(statements) ==
  [i \in 1..Len(statements) |->
     [statements[i] EXCEPT
        !.tokens = AdjustEntries(adjustClosingBracketsInTokens(statements[i].tokens).tokens,
                                 statements[i].chain.entries,
                                 Len(statements[i].chain.entries))]]

TouchedStatements(statements) ==
  {i \in 1..Len(statements) : adjustClosingBracketsInTokens(statements[i].tokens).changed}

applyClosingBracketsPosition(statements, posts) ==
  IF Len(statements) = 0
  THEN [body |-> statements, posts |-> posts, touched |-> {}]
  ELSE LET touchedSet == TouchedStatements(statements)
           cleared    == [k \in (DOMAIN posts) \ (1..Len(statements)) |-> posts[k]]
           m          == mergeTrailingComments(AdjustAll(statements), touchedSet, cleared)
       IN [body |-> m.body, posts |-> m.posts, touched |-> touchedSet]

-----------------------------------------------------------------------------
(* rules/needlessSpacesRule.ts *)

ASSIGNMENT_OPERATORS == {"=", ":=", "+=", "-=", "*=", "/=", "&&=", "&&= ", "?="}

COMPARISON_OPERATORS == {"=", "==", "<>", "!=", "<", "<=", ">", ">="}

\* NUMERIC_LITERAL.test(text) on the token texts of the model
isNumericLiteralToken(token) == token.text \in {"1", "10"}

isAssignmentOperatorToken(token) == token.text \in ASSIGNMENT_OPERATORS

isComparisonOperatorToken(token) == token.text \in COMPARISON_OPERATORS

\* getNumericAlignmentIndex: the index of the last digit of a literal that
\* has neither a decimal point nor a quote
getNumericAlignmentIndex(text) == Len(text) - 1

getTokenLength(token) == Max(1, token.ecol - token.col)

classifyTokenType(token) ==
  IF token.text = ":" THEN "COLON"
  ELSE IF token.text = "," THEN "COMMA"
  ELSE IF token.text = "." THEN "PERIOD"
  ELSE IF isAssignmentOperatorToken(token) THEN "ASSIGNMENT_OP"
  ELSE IF isComparisonOperatorToken(token) THEN "COMPARISON_OP"
  ELSE IF token.role = "comment" THEN "COMMENT"
  ELSE IF token.role = "pragma" THEN "PRAGMA"
  ELSE IF token.role = "string" \/ isNumericLiteralToken(token) THEN "LITERAL"
  ELSE "IDENTIFIER"

isSequenceBridgeKeyword(tokenPos) ==
  toUpperCase(tokenPos.text) \in {"ELSE", "ELSEIF", "WHEN"}

\* One TokenPos of collectFromTokens; hasPrevious is whether the loop holds a
\* previous TokenPos of the same token list
MakeTokenPos(token, commandNumber, hasPrevious, previous) ==
  LET startColumn == Max(0, token.col)
      endColumn   == Max(startColumn, token.ecol)
      lineNumber  == token.line
      isNewLine   == ~hasPrevious \/ previous.lineNumber # lineNumber
  IN [token            |-> token.id,
      text             |-> token.text,
      startColumn      |-> startColumn,
      endColumn        |-> endColumn,
      lineNumber       |-> lineNumber,
      commandNumber    |-> commandNumber,
      spacesLeft       |-> IF isNewLine THEN startColumn
                           ELSE Max(0, startColumn - previous.endColumn - 1),
      isFirstInLine    |-> isNewLine,
      startIndexInLine |-> startColumn,
      prevEndColumn    |-> IF isNewLine THEN startColumn - 1 ELSE previous.endColumn,
      tokenType        |-> classifyTokenType(token),
      prevTokenType    |-> IF hasPrevious THEN previous.tokenType ELSE "undefined",
      xPos             |-> 2 * startColumn,
      specialXPos      |->
        IF isAssignmentOperatorToken(token) \/ isComparisonOperatorToken(token)
        THEN 2 * (startColumn + getTokenLength(token) - 1) + 1
        ELSE IF isNumericLiteralToken(token)
        THEN 2 * (startColumn + getNumericAlignmentIndex(token.text)) + 1
        ELSE 0 - 1]

RECURSIVE CollectLoop(_, _, _, _)
CollectLoop(tokens, commandNumber, k, collected) ==
  IF k > Len(tokens) THEN collected
  ELSE CollectLoop(tokens, commandNumber, k + 1,
         Append(collected,
                MakeTokenPos(tokens[k], commandNumber, collected # <<>>,
                             IF collected # <<>> THEN Last(collected) ELSE <<>>)))

collectFromTokens(tokens, commandNumber) == CollectLoop(tokens, commandNumber, 1, <<>>)

\* collectFromTokens on the tokens of the first n chain entries
RECURSIVE CollectEntries(_, _, _)
CollectEntries(statement, n, commandNumber) ==
  IF n = 0 THEN <<>>
  ELSE CollectEntries(statement, n - 1, commandNumber)
       \o (IF statement.chain.entries[n].type = "entry"
           THEN collectFromTokens(EntryTokens(statement, statement.chain.entries[n]),
                                  commandNumber)
           ELSE <<>>)

RECURSIVE CollectStatements(_, _)
CollectStatements(statements, n) ==
  IF n = 0 THEN <<>>
  ELSE CollectStatements(statements, n - 1)
       \o collectFromTokens(statements[n].tokens, n - 1)
       \o CollectEntries(statements[n], Len(statements[n].chain.entries), n - 1)

\* allTokenPositions, in the order collectTokenPositions pushes them
collectTokenPositions(statements) == CollectStatements(statements, Len(statements))

\* tokensOfXPos.get(key), in insertion order
TokensOfXPos(all, key) ==
  SelectSeq(all, LAMBDA tp : tp.xPos = key \/ tp.specialXPos = key)

XPosKeys(all) ==
  {all[i].xPos : i \in DOMAIN all}
    \cup {all[i].specialXPos : i \in {j \in DOMAIN all : all[j].specialXPos >= 0}}

\* firstTokenOfLine.get(line): the first TokenPos collected as first of the
\* line; 0 when the line has none
FirstTokenOfLine(all, line) ==
  LET cands == {i \in DOMAIN all : all[i].isFirstInLine /\ all[i].lineNumber = line}
  IN IF cands = {} THEN 0 ELSE CHOOSE i \in cands : \A j \in cands : i <= j

compareTokenPosLess(a, b) ==
  IF a.lineNumber # b.lineNumber THEN a.lineNumber < b.lineNumber
  ELSE IF a.commandNumber # b.commandNumber THEN a.commandNumber < b.commandNumber
  ELSE a.startColumn < b.startColumn

RECURSIVE InsertSorted(_, _)
InsertSorted(sorted, x) ==
  IF sorted = <<>> THEN <<x>>
  ELSE IF compareTokenPosLess(x, Last(sorted))
  THEN Append(InsertSorted(Front(sorted), x), Last(sorted))
  ELSE Append(sorted, x)

\* tokenPosList.sort(compareTokenPos): a stable sort
RECURSIVE SortTokenPos(_)
SortTokenPos(list) ==
  IF list = <<>> THEN list ELSE InsertSorted(SortTokenPos(Front(list)), Last(list))

tokenTypesMatch(type1, type2) ==
  IF type1 = "COLON" \/ type2 = "COLON" THEN type1 = type2
  ELSE IF type1 = "COMMA" \/ type2 = "COMMA" THEN type1 = type2
  ELSE IF type1 = "PERIOD" \/ type2 = "PERIOD" THEN type1 = type2
  ELSE IF type1 = "ASSIGNMENT_OP" \/ type2 = "ASSIGNMENT_OP" THEN type1 = type2
  ELSE IF type1 = "COMPARISON_OP" \/ type2 = "COMPARISON_OP" THEN type1 = type2
  ELSE IF type1 = "COMMENT" \/ type2 = "COMMENT" THEN type1 = type2
  ELSE IF type1 = "PRAGMA" \/ type2 = "PRAGMA" THEN type1 = type2
  ELSE TRUE

tokenBreaksSequence(firstTokenPos, prevTokenPos, testTokenPos, xPos, all) ==
  IF /\ firstTokenPos.tokenType # "COMMENT"
     /\ prevTokenPos.commandNumber # testTokenPos.commandNumber
     /\ testTokenPos.lineNumber > prevTokenPos.lineNumber + 1
     /\ \E line \in (prevTokenPos.lineNumber + 1)..(testTokenPos.lineNumber - 1) :
          LET f == FirstTokenOfLine(all, line) IN
            /\ f # 0
            /\ all[f].startIndexInLine < xPos
            /\ ~isSequenceBridgeKeyword(all[f])
  THEN TRUE
  ELSE IF firstTokenPos.prevTokenType = "ASSIGNMENT_OP"
          /\ testTokenPos.prevTokenType = "ASSIGNMENT_OP"
  THEN FALSE
  ELSE ~tokenTypesMatch(firstTokenPos.tokenType, testTokenPos.tokenType)

\* The end (exclusive) of the run that starts at startIndex
RECURSIVE RunEnd(_, _, _, _, _)
RunEnd(list, startIndex, endIndex, xPos, all) ==
  IF endIndex + 1 > Len(list) THEN endIndex + 1
  ELSE IF tokenBreaksSequence(list[startIndex], list[endIndex], list[endIndex + 1], xPos, all)
  THEN endIndex + 1
  ELSE RunEnd(list, startIndex, endIndex + 1, xPos, all)

SetMax(S) == CHOOSE x \in S : \A y \in S : y <= x

SetMin(S) == CHOOSE x \in S : \A y \in S : x <= y

\* processSequence on the run list[startIndex .. endIndex - 1]; st holds
\* overrides, groupedTokens and processedTokens
processSequence(list, startIndex, endIndex, isSpecialAlignment, st) ==
  IF endIndex - startIndex < 2 THEN st
  ELSE
    LET run      == startIndex..(endIndex - 1)
        members  == {list[i].token : i \in run}
        grouped1 == st.grouped \cup members
        maxPrevEndColumn ==
          SetMax({0} \cup {list[i].prevEndColumn : i \in {j \in run : ~list[j].isFirstInLine}})
        allStartColumnsEqual ==
          \A i \in run : list[i].startIndexInLine = list[startIndex].startIndexInLine
    IN IF isSpecialAlignment /\ allStartColumnsEqual
       THEN [st EXCEPT !.grouped = grouped1]
       ELSE
         LET processed1 == IF isSpecialAlignment THEN st.processed \cup members
                           ELSE st.processed
             spacesToSpare ==
               SetMin({IF isSpecialAlignment
                       THEN list[i].startIndexInLine - maxPrevEndColumn - 1
                       ELSE Max(0, list[i].spacesLeft) - 1 : i \in run})
             hasFirstTokensOnly == \A i \in run : list[i].isFirstInLine
             writes == {i \in run : /\ list[i].tokenType \notin {"COMMA", "PERIOD", "COLON"}
                                    /\ ~list[i].isFirstInLine
                                    /\ list[i].tokenType # "COMMENT"}
         IN IF hasFirstTokensOnly \/ spacesToSpare <= 0
            THEN [st EXCEPT !.grouped = grouped1, !.processed = processed1]
            ELSE [ov        |-> [id \in (DOMAIN st.ov) \cup {list[i].token : i \in writes} |->
                                   IF \E i \in writes : list[i].token = id
                                   THEN LET i == SetMax({j \in writes : list[j].token = id})
                                        IN Max(0, list[i].spacesLeft - spacesToSpare)
                                   ELSE st.ov[id]],
                  grouped   |-> grouped1,
                  processed |-> processed1]

\* The runs of one x position, from startIndex on
RECURSIVE RunsLoop(_, _, _, _, _)
RunsLoop(list, startIndex, xPosKey, all, st) ==
  IF startIndex > Len(list) THEN st
  ELSE
    LET endIndex     == RunEnd(list, startIndex, startIndex, xPosKey \div 2, all)
        skipSequence == \E i \in startIndex..(endIndex - 1) : list[i].token \in st.processed
    IN RunsLoop(list, endIndex, xPosKey, all,
                IF skipSequence THEN st
                ELSE processSequence(list, startIndex, endIndex, xPosKey % 2 # 0, st))

\* The loop over the x positions, from the highest key down
RECURSIVE XPosLoop(_, _, _)
XPosLoop(keys, all, st) ==
  IF keys = {} THEN st
  ELSE
    LET xPosKey == SetMax(keys)
        list    == TokensOfXPos(all, xPosKey)
    IN XPosLoop(keys \ {xPosKey}, all,
                IF Len(list) < 2 THEN st
                ELSE RunsLoop(SortTokenPos(list), 1, xPosKey, all, st))

condenseStandaloneTokens(all, st) ==
  LET hits == {i \in DOMAIN all :
                 /\ ~all[i].isFirstInLine
                 /\ all[i].token \notin st.grouped
                 /\ all[i].token \notin DOMAIN st.ov
                 /\ all[i].tokenType \notin {"COMMENT", "PRAGMA", "COMMA", "PERIOD", "COLON"}
                 /\ all[i].spacesLeft > 1}
  IN [id \in (DOMAIN st.ov) \cup {all[i].token : i \in hits} |->
        IF id \in DOMAIN st.ov THEN st.ov[id] ELSE 1]

isMatchingBracketPair(open, close) ==
  (open = "(" /\ close = ")") \/ (open = "[" /\ close = "]")

\* The tokens applyEmptyBracketOverridesToTokens overrides with 0
EmptyBracketTokens(tokens) ==
  {tokens[i + 1].id : i \in {j \in 1..(Len(tokens) - 1) :
      /\ isMatchingBracketPair(tokens[j].text, tokens[j + 1].text)
      /\ tokens[j].line = tokens[j + 1].line
      /\ tokens[j + 1].col - tokens[j].ecol - 1 > 0}}

applyEmptyBracketOverrides(statements, ov) ==
  LET zero == UNION {EmptyBracketTokens(statements[n].tokens) : n \in DOMAIN statements}
  IN [id \in (DOMAIN ov) \cup zero |-> IF id \in zero THEN 0 ELSE ov[id]]

computeNeedlessSpacesOverrides(statements) ==
  LET all == collectTokenPositions(statements)
      st0 == [ov |-> <<>>, grouped |-> {}, processed |-> {}]
  IN IF all = <<>> THEN <<>>
     ELSE LET st == XPosLoop(XPosKeys(all), all, st0)
          IN applyEmptyBracketOverrides(statements, condenseStandaloneTokens(all, st))

-----------------------------------------------------------------------------
(* rules/spaceBeforePeriodRule.ts and rules/upperAndLowerCaseRule.ts *)

PUNCTUATION_TO_TRIM == {".", ","}

\* needsSpaceBefore(current, previous, options); hasPrevious is whether
\* previous is defined
needsSpaceBefore(current, hasPrevious, previous, o) ==
  IF ~hasPrevious THEN FALSE
  ELSE IF current.text = "(" THEN FALSE
  ELSE IF current.text = ")" THEN TRUE
  ELSE IF current.role = "punctuation" /\ current.text \in PUNCTUATION_TO_TRIM
  THEN o.abapSpaceBeforePeriod = TRUE
  ELSE IF current.role = "comment" THEN needsSpaceBeforeCommentSign(o)
  ELSE IF current.role = "arrow" \/ current.text = "->" \/ current.text = "=>" THEN FALSE
  ELSE IF current.text = ")" \/ current.text = "]" \/ current.text = ":" THEN FALSE
  ELSE IF current.role = "punctuation" THEN FALSE
  ELSE IF current.text = "," \/ current.text = "." THEN FALSE
  ELSE IF previous.text \in {"(", "[", ":", "-", "->", "=>"} THEN FALSE
  ELSE IF previous.role = "arrow" THEN FALSE
  ELSE IF current.text = "=" /\ previous.text \in {"+", "-", "*", "/", "&&"} THEN FALSE
  ELSE TRUE

applyKeywordCase(token, o) ==
  IF token.role # "word" THEN token.text
  ELSE IF toUpperCase(token.text) \notin KEYWORDS THEN token.text
  ELSE IF o.abapKeywordCase = "lower" THEN toLowerCase(toUpperCase(token.text))
  ELSE toUpperCase(token.text)

-----------------------------------------------------------------------------
(* printers/abap.ts *)

renderToken(token, o) ==
  CASE token.role = "word"  -> applyKeywordCase(token, o)
    [] token.role = "colon" -> ":"
    [] OTHER                -> token.text

computeOriginalSpaces(token, hasPrevious, previous) ==
  IF ~hasPrevious THEN 0
  ELSE IF previous.line # token.line THEN 0
  ELSE LET diff == token.col - previous.ecol - 1
       IN IF diff > 0 THEN diff ELSE 0

getSpacesBeforeToken(token, hasPrevious, previous, o, overrides) ==
  LET minSpaces == IF needsSpaceBefore(token, hasPrevious, previous, o) THEN 1 ELSE 0
  IN IF token.id \in DOMAIN overrides THEN overrides[token.id]
     ELSE IF minSpaces = 0 THEN 0
     ELSE Max(computeOriginalSpaces(token, hasPrevious, previous), minSpaces)

\* A rendered line: the placed tokens, and the comment text (from column
\* ccol to the end of the line); startLine/endLine are its lineMetas entry
EmptyLine == [toks |-> <<>>, cmt |-> <<>>, ccol |-> 0, startLine |-> 0, endLine |-> 0]

\* The length of the line's code, which never ends in white space
CodeWidth(line) ==
  IF line.toks = <<>> THEN 0 ELSE Last(line.toks).col + Len(Last(line.toks).text)

\* The text appendComment puts behind the line for the comment
formattedComment(comment, o) == formatCommentValue(trimStart(comment.value), o)

appendComment(line, comment, o) ==
  IF comment = NoComment THEN line
  ELSE
    LET formatted == formattedComment(comment, o) IN
    IF line.cmt = <<>>
    THEN [line EXCEPT !.cmt  = formatted,
                      !.ccol = IF ~needsSpaceBeforeCommentSign(o) \/ CodeWidth(line) = 0
                               THEN CodeWidth(line) ELSE CodeWidth(line) + 1]
    ELSE [line EXCEPT !.cmt = IF ~needsSpaceBeforeCommentSign(o) \/ Last(line.cmt) = SP
                              THEN line.cmt \o formatted
                              ELSE line.cmt \o <<SP>> \o formatted]

\* The state of the token loop after the token is placed at column col:
\* r holds lines (flushed), cur (the tokens of currentLine), previous and
\* hasPrevious, atLineStart
PlaceToken(r, token, placed, start1) ==
  IF token.brk
  THEN [lines |-> Append(r.lines,
                         [EmptyLine EXCEPT !.toks = Append(r.cur, placed),
                                           !.startLine = start1,
                                           !.endLine = token.line]),
        cur |-> <<>>, hasPrevious |-> FALSE, previous |-> token,
        atLineStart |-> TRUE, startLine |-> 0]
  ELSE [lines |-> r.lines, cur |-> Append(r.cur, placed), hasPrevious |-> TRUE,
        previous |-> token, atLineStart |-> FALSE, startLine |-> start1]

\* The column the token loop gives the token
TokenColumn(statement, indentWidth, o, overrides, r, token) ==
  IF r.atLineStart
  THEN indentWidth + Max(0, token.col - statement.loc.startColumn)
  ELSE (IF r.cur = <<>> THEN indentWidth ELSE Last(r.cur).col + Len(Last(r.cur).text))
       + getSpacesBeforeToken(token, r.hasPrevious, r.previous, o, overrides)

\* The token loop of printStatement
RECURSIVE RenderLoop(_, _, _, _, _, _)
RenderLoop(statement, indentWidth, o, overrides, k, r) ==
  IF k > Len(statement.tokens) THEN r
  ELSE RenderLoop(statement, indentWidth, o, overrides, k + 1,
         PlaceToken(r, statement.tokens[k],
                    [text |-> renderToken(statement.tokens[k], o),
                     role |-> statement.tokens[k].role,
                     col  |-> TokenColumn(statement, indentWidth, o, overrides, r,
                                          statement.tokens[k])],
                    IF r.startLine = 0 THEN statement.tokens[k].line ELSE r.startLine))

\* lines[i - 1] and lines[i] joined: the second follows the first directly
JoinLines(a, b) ==
  LET shift == CodeWidth(a) - b.toks[1].col
  IN [toks      |-> a.toks \o [j \in 1..Len(b.toks) |->
                                 [b.toks[j] EXCEPT !.col = b.toks[j].col + shift]],
      cmt       |-> <<>>,
      ccol      |-> 0,
      startLine |-> a.startLine,
      endLine   |-> b.endLine]

StartsWithPeriodOrComma(line) ==
  line.toks # <<>> /\ line.toks[1].text \in {".", ","}

\* The loop that merges a line starting with a period or a comma into the
\* line before it; i is the 0-based index of the code
RECURSIVE MergePunctuationLines(_, _, _)
MergePunctuationLines(lines, i, hasPostComment) ==
  IF i >= Len(lines) THEN lines
  ELSE IF hasPostComment /\ i = Len(lines) - 1
  THEN MergePunctuationLines(lines, i + 1, hasPostComment)
  ELSE IF StartsWithPeriodOrComma(lines[i + 1])
  THEN MergePunctuationLines(
         SubSeq(lines, 1, i - 1) \o <<JoinLines(lines[i], lines[i + 1])>>
           \o SubSeq(lines, i + 2, Len(lines)),
         i, hasPostComment)
  ELSE MergePunctuationLines(lines, i + 1, hasPostComment)

\* The lines of printStatement when the token loop has ended in r
FlushLines(statement, r) ==
  IF r.cur # <<>>
  THEN Append(r.lines, [EmptyLine EXCEPT !.toks = r.cur, !.startLine = r.startLine,
                                         !.endLine = Last(statement.tokens).line])
  ELSE IF r.lines = <<>>
  THEN <<[EmptyLine EXCEPT !.startLine = statement.loc.startLine,
                           !.endLine = statement.loc.startLine]>>
  ELSE r.lines

\* indentWidth of printStatement
IndentWidth(statement) ==
  IF statement.indentLevel >= 0
  THEN statement.indentLevel * Max(1, DefaultTabWidth)
  ELSE Max(0, statement.loc.startColumn)

\* printStatement up to the comments: the token loop and the loop that
\* merges punctuation lines
statementLines(statement, o, overrides, hasPostComment) ==
  MergePunctuationLines(
    FlushLines(statement,
               RenderLoop(statement, IndentWidth(statement), o, overrides, 1,
                 [lines |-> <<>>, cur |-> <<>>, hasPrevious |-> FALSE,
                  previous |-> <<>>, atLineStart |-> TRUE, startLine |-> 0])),
    1, hasPostComment)

\* The line the trailing comment is appended to: lineMetas.findIndex, and
\* the last line when no line holds the comment's source line
targetIndex(lines, comment) ==
  IF \E i \in DOMAIN lines : comment.line >= lines[i].startLine
                             /\ comment.line <= lines[i].endLine
  THEN SetMin({i \in DOMAIN lines : comment.line >= lines[i].startLine
                                    /\ comment.line <= lines[i].endLine})
  ELSE Len(lines)

\* The lines with the comment appended to line index
AppendAt(lines, index, comment, o) ==
  IF comment = NoComment THEN lines
  ELSE [lines EXCEPT ![index] = appendComment(lines[index], comment, o)]

\* The lines with the trailing comment and then the post comment appended
WithComments(lines, comment, postComment, o) ==
  AppendAt(AppendAt(lines, targetIndex(lines, comment), comment, o),
           Len(lines), postComment, o)

\* printStatement(statement, options), with the override table and the
\* post comment it takes; the result is the list of lines
printStatement(statement, o, overrides, postComment) ==
  IF statement.tokens = <<>> /\ statement.trailingComment = NoComment
  THEN <<EmptyLine>>
  ELSE WithComments(statementLines(statement, o, overrides, postComment # NoComment),
                    statement.trailingComment, postComment, o)

\* renderTokenSequence from token k on; placed holds the tokens rendered so
\* far with their columns in the result
RECURSIVE SequenceLoop(_, _, _, _, _)
SequenceLoop(tokens, o, overrides, k, placed) ==
  IF k > Len(tokens) THEN placed
  ELSE SequenceLoop(tokens, o, overrides, k + 1,
         Append(placed,
                [text |-> renderToken(tokens[k], o),
                 role |-> tokens[k].role,
                 col  |-> IF placed = <<>> THEN 0
                          ELSE Last(placed).col + Len(Last(placed).text)
                               + getSpacesBeforeToken(tokens[k], TRUE, tokens[k - 1],
                                                      o, overrides)]))

renderTokenSequence(tokens, o, overrides) == SequenceLoop(tokens, o, overrides, 1, <<>>)

shouldInlineFirstEntryAlways(keyword) == TRUE

shouldInlineFirstEntry(keyword) ==
  toUpperCase(keyword.text) \notin {"CLEAR", "FREE", "SORT", "CATCH", "TRY"}

\* The placed tokens moved right by shift columns
Shifted(placed, shift) ==
  [k \in 1..Len(placed) |-> [placed[k] EXCEPT !.col = placed[k].col + shift]]

\* `${baseIndent}${keyword}:`
KeywordLine(baseIndentWidth, keyword) ==
  [EmptyLine EXCEPT
     !.toks = <<[text |-> keyword, role |-> "word", col |-> baseIndentWidth],
                [text |-> ":", role |-> "colon", col |-> baseIndentWidth + Len(keyword)]>>]

\* A line of white space and content, with the comment appendComment puts
\* behind it: a line that is white space only ends with a space or is empty
ContentLine(indentWidth, content, comment, o) ==
  IF content = <<>>
  THEN IF comment = NoComment THEN EmptyLine
       ELSE [EmptyLine EXCEPT !.cmt = formattedComment(comment, o), !.ccol = indentWidth]
  ELSE appendComment([EmptyLine EXCEPT !.toks = Shifted(content, indentWidth)], comment, o)

\* The lines printChainStatement pushes for entry n of the chain;
\* firstEntryHandled is whether an entry with tokens came before
EntryLines(statement, o, overrides, baseIndentWidth, keyword, entry, firstEntryHandled, content) ==
  IF entry.type = "entry"
  THEN IF ~firstEntryHandled
       THEN IF shouldInlineFirstEntry(statement.chain.keyword) /\ content # <<>>
            THEN <<appendComment(
                     [EmptyLine EXCEPT
                        !.toks = KeywordLine(baseIndentWidth, keyword).toks
                                 \o Shifted(content, baseIndentWidth + Len(keyword) + 2)],
                     entry.trailingComment, o)>>
            ELSE <<KeywordLine(baseIndentWidth, keyword),
                   ContentLine(IF shouldInlineFirstEntry(statement.chain.keyword)
                               THEN baseIndentWidth + Len(keyword) + 2
                               ELSE baseIndentWidth + Max(1, DefaultTabWidth),
                               content, entry.trailingComment, o)>>
       ELSE <<ContentLine(IF shouldInlineFirstEntry(statement.chain.keyword)
                          THEN baseIndentWidth + Len(keyword) + 2
                          ELSE baseIndentWidth + Max(1, DefaultTabWidth),
                          content, entry.trailingComment, o)>>
  ELSE <<[EmptyLine EXCEPT
            !.cmt  = formatCommentValue(trimStart(entry.comment.value), o),
            !.ccol = Max(0, entry.comment.col)]>>

\* Whether one of the first n entries is an entry with tokens
FirstEntryHandled(entries, n) == \E j \in 1..n : entries[j].type = "entry"

\* The loop of printChainStatement over the first n entries
RECURSIVE ChainLines(_, _, _, _)
ChainLines(statement, o, overrides, n) ==
  IF n = 0 THEN <<>>
  ELSE ChainLines(statement, o, overrides, n - 1)
       \o EntryLines(statement, o, overrides, IndentWidth(statement),
                     renderToken(statement.chain.keyword, o),
                     statement.chain.entries[n],
                     FirstEntryHandled(statement.chain.entries, n - 1),
                     IF statement.chain.entries[n].type = "entry"
                     THEN renderTokenSequence(
                            EntryTokens(statement, statement.chain.entries[n]),
                            o, overrides)
                     ELSE <<>>)

\* The text of a line as pieces: its tokens with the spaces between them
RECURSIVE CodePieces(_, _, _)
CodePieces(toks, k, width) ==
  IF k > Len(toks) THEN <<>>
  ELSE [j \in 1..(toks[k].col - width) |-> SP] \o <<toks[k].text>>
       \o CodePieces(toks, k + 1, toks[k].col + Len(toks[k].text))

\* lines[i - 1].replace(/[\s]*$/, "") + lines[i].trimStart(): when the line
\* before ends in a comment, the joined line's text is part of that comment
JoinChainLines(a, b) ==
  IF a.cmt = <<>> THEN [JoinLines(a, b) EXCEPT !.cmt = b.cmt,
                                               !.ccol = b.ccol + CodeWidth(a) - b.toks[1].col]
  ELSE [a EXCEPT !.cmt = trimEnd(a.cmt) \o CodePieces(b.toks, 1, b.toks[1].col)
                         \o [j \in 1..(IF b.cmt = <<>> THEN 0 ELSE b.ccol - CodeWidth(b))
                               |-> SP]
                         \o b.cmt]

\* The loop of printChainStatement that joins a line starting with a period
\* or a comma to the line before it; i is the 0-based index of the code
RECURSIVE MergeChainLines(_, _)
MergeChainLines(lines, i) ==
  IF i >= Len(lines) THEN lines
  ELSE IF StartsWithPeriodOrComma(lines[i + 1])
  THEN MergeChainLines(
         SubSeq(lines, 1, i - 1) \o <<JoinChainLines(lines[i], lines[i + 1])>>
           \o SubSeq(lines, i + 2, Len(lines)),
         IF i > 1 THEN i ELSE 1)
  ELSE MergeChainLines(lines, i + 1)

printChainStatementExpanding(statement, o, overrides) ==
  IF o.abapChainFormatting = "expand"
  THEN <<KeywordLine(IndentWidth(statement), renderToken(statement.chain.keyword, o))>>
       \o ChainLines(statement, o, overrides, Len(statement.chain.entries))
  ELSE MergeChainLines(
         ChainLines(statement, o, overrides, Len(statement.chain.entries)), 1)

\* printChainStatement(statement, options), with the override table
printChainStatement(statement, o, overrides) ==
  IF ChainLines(statement, o, overrides, Len(statement.chain.entries)) = <<>>
  THEN <<KeywordLine(IndentWidth(statement), renderToken(statement.chain.keyword, o))>>
  ELSE MergeChainLines(
         ChainLines(statement, o, overrides, Len(statement.chain.entries)), 1)

\* The print callback of the printer for a statement
print(statement, o, overrides, postComment) ==
  IF statement.chain.present
  THEN printChainStatement(statement, o, overrides)
  ELSE printStatement(statement, o, overrides, postComment)

\* The hardlines printProgram puts before statement index (1-based)
GapBefore(statements, index) ==
  IF index = 1 THEN 0
  ELSE Max(1, statements[index].loc.startLine - statements[index - 1].loc.endLine)

BlankLines(n) == [i \in 1..n |-> EmptyLine]

\* The text a rendered line contributes to the document
AsText(line) == [toks |-> line.toks, cmt |-> line.cmt, ccol |-> line.ccol]

-----------------------------------------------------------------------------
(* The documents and options the model formats *)

RoleOf(text) ==
  IF text \in {".", ","} THEN "punctuation"
  ELSE IF text = "##P" THEN "pragma"
  ELSE IF text = ":" THEN "colon"
  ELSE "word"

Tok(text, col) == [text |-> text, role |-> RoleOf(text), col |-> col]

CodeLine(toks) == [toks |-> toks, cmt |-> <<>>, ccol |-> 0]

\* The line with a comment two columns after its code (at column 4 when the
\* line has no code); an empty value leaves the line as it is
WithComment(line, value) ==
  IF value = <<>> THEN line
  ELSE [line EXCEPT !.cmt = value,
                    !.ccol = IF line.toks = <<>> THEN 4
                             ELSE Last(line.toks).col + Len(Last(line.toks).text) + 2]

Idents == {"a", "bb", "ccc"}

\* ident, gap spaces, "=", one space, "1", "."
AssignLine(ident, gap) ==
  LET c == Len(ident) + gap
  IN CodeLine(<<Tok(ident, 0), Tok("=", c), Tok("1", c + 2), Tok(".", c + 3)>>)

AssignBlocks ==
  {<<AssignLine(i1, g1), AssignLine(i2, g2), AssignLine(i3, g3)>> :
     i1 \in Idents, i2 \in Idents, i3 \in Idents,
     g1 \in 1..MaxGap, g2 \in 1..MaxGap, g3 \in 1..MaxGap}

\* "a", one space, "=", gap spaces, a numeric literal, "."
LiteralLine(lit, gap) ==
  CodeLine(<<Tok("a", 0), Tok("=", 2), Tok(lit, 3 + gap), Tok(".", 3 + gap + Len(lit))>>)

LiteralBlocks ==
  {<<LiteralLine(l1, g1), LiteralLine(l2, g2)>> :
     l1 \in {"1", "10"}, l2 \in {"1", "10"}, g1 \in 1..MaxGap, g2 \in 1..MaxGap}

\* "f(", gap spaces, ")."
EmptyCalls ==
  {<<CodeLine(<<Tok("f", 0), Tok("(", 1), Tok(")", 2 + g), Tok(".", 3 + g)>>)>> :
     g \in 0..MaxGap}

\* A block: "if a." / "bb = 1." / "endif." with any source indentation
IfBlocks ==
  {<<CodeLine(<<Tok(kw, c1), Tok("a", c1 + 3), Tok(".", c1 + 4)>>),
     AssignLine("bb", 1),
     CodeLine(<<Tok("endif", c3), Tok(".", c3 + 5)>>)>> :
     kw \in {"if", "IF"}, c1 \in 0..2, c3 \in 0..2}

Q == COMMENT_SIGN

\* A call "f( a )." with the closing bracket and the period on the line of
\* the argument or on lines of their own, an optional pragma, a comment on
\* the line above, behind the argument and behind the period, and an
\* optional following statement "clear a."
CallText(above, inner, after, pragma, bracketBreak, periodBreak, follow) ==
  LET first == <<Tok("f", 4), Tok("(", 5), Tok("a", 7)>>
                 \o (IF pragma THEN <<Tok("##P", 9)>> ELSE <<>>)
      w1    == IF pragma THEN 12 ELSE 8
      close == IF bracketBreak THEN <<Tok(")", 5)>> ELSE <<Tok(")", w1 + 1)>>
      w2    == close[1].col + 1
      stop  == IF periodBreak THEN <<Tok(".", 5)>> ELSE <<Tok(".", w2)>>
      code  == IF bracketBreak
               THEN IF periodBreak
                    THEN <<WithComment(CodeLine(first), inner), CodeLine(close),
                           WithComment(CodeLine(stop), after)>>
                    ELSE <<WithComment(CodeLine(first), inner),
                           WithComment(CodeLine(close \o stop), after)>>
               ELSE IF periodBreak
                    THEN <<WithComment(CodeLine(first \o close), inner),
                           WithComment(CodeLine(stop), after)>>
                    ELSE <<WithComment(CodeLine(first \o close \o stop), after)>>
  IN (IF above = <<>> THEN <<>> ELSE <<WithComment(CodeLine(<<>>), above)>>)
     \o code
     \o (IF follow THEN <<CodeLine(<<Tok("clear", 4), Tok("a", 10), Tok(".", 11)>>)>>
         ELSE <<>>)

\* Two calls, the second starting behind the period of the first, with a
\* comment behind the argument of the second and behind its period
TwoCalls ==
  {<<CodeLine(<<Tok("f", 4), Tok("(", 5), Tok("a", 7)>>),
     WithComment(CodeLine(<<Tok(")", 5), Tok(".", 6), Tok("f", 8), Tok("(", 9),
                            Tok("a", 11)>>), c2),
     WithComment(CodeLine(<<Tok(")", 5), Tok(".", 6)>>), c3),
     CodeLine(<<Tok("clear", 4), Tok("a", 10), Tok(".", 11)>>)>> :
     c2 \in {<<>>, <<Q, "x">>, <<Q, "#", "X">>}, c3 \in {<<>>, <<Q, "y">>, <<Q, "#", "Y">>}}

\* "a ##P", gap spaces, "= 1." above "bbbbb", gap spaces, "= 1."
PragmaBlocks ==
  {<<CodeLine(<<Tok("a", 0), Tok("##P", 2), Tok("=", 5 + g1), Tok("1", 7 + g1),
                Tok(".", 8 + g1)>>),
     AssignLine("bbbbb", g2)>> : g1 \in 1..MaxGap, g2 \in 1..MaxGap}

AboveComments == {<<>>, <<Q, "u">>}

InnerComments == {<<>>, <<Q, "x">>, <<Q, "#", "X">>}

AfterComments == {<<>>, <<Q, "y">>, <<Q, SP, "y">>, <<Q, "#", "Y">>, <<Q, "-", "y">>}

\* A comment behind the argument needs a line break before the bracket
Calls ==
  {CallText(above, inner, after, pragma, bb, pb, follow) :
     above \in AboveComments, inner \in InnerComments, after \in AfterComments,
     pragma \in BOOLEAN, bb \in BOOLEAN, pb \in BOOLEAN, follow \in BOOLEAN}

DefaultOptions ==
  [abapKeywordCase |-> "upper", abapSpaceBeforePeriod |-> FALSE,
   abapSpaceBeforeCommentSign |-> TRUE, abapSpaceAfterCommentSign |-> TRUE,
   abapChainFormatting |-> "preserve"]

PeriodOptions == {[DefaultOptions EXCEPT !.abapSpaceBeforePeriod = b] : b \in BOOLEAN}

CaseOptions == {[DefaultOptions EXCEPT !.abapKeywordCase = c] : c \in {"upper", "lower"}}

CommentOptions ==
  {[DefaultOptions EXCEPT !.abapSpaceBeforePeriod = p, !.abapSpaceBeforeCommentSign = b,
                          !.abapSpaceAfterCommentSign = a] :
     p \in BOOLEAN, b \in BOOLEAN, a \in BOOLEAN}

-----------------------------------------------------------------------------
(* The formatting run *)

Init ==
  /\ \/ /\ src \in AssignBlocks \cup LiteralBlocks \cup EmptyCalls \cup PragmaBlocks
                   \cup TwoCalls
        /\ opts \in PeriodOptions
     \/ src \in IfBlocks /\ opts \in CaseOptions
     \/ src \in Calls /\ opts \in CommentOptions
  /\ pass = 1
  /\ pc = "start"
  /\ raw = <<>>
  /\ levels = <<>>
  /\ body = <<>>
  /\ touched = {}
  /\ postComments = <<>>
  /\ activeNeedlessSpaces = <<>>
  /\ idx = 0
  /\ docs = <<>>
  /\ out1 = <<>>
  /\ emitted = <<>>

\* parseAbap: tokenizer, indentation engine, statement builder
Parse ==
  /\ pc = "start"
  /\ raw' = Tokenize(src)
  /\ levels' = computeIndentationLevels(raw')
  /\ body' = convertStatements(raw', levels')
  /\ pc' = "parsed"
  /\ UNCHANGED <<opts, src, pass, touched, postComments, activeNeedlessSpaces, idx, docs, out1, emitted>>

\* printProgram up to the first statement: bracket repositioning, comment
\* merge and the override table
PrintProgram ==
  /\ pc = "parsed"
  /\ IF Len(body) = 0
     THEN /\ activeNeedlessSpaces' = <<>>
          /\ pc' = "done"
          /\ out1' = IF pass = 1 THEN <<>> ELSE out1
          /\ UNCHANGED <<body, touched, postComments>>
     ELSE LET r == applyClosingBracketsPosition(body, postComments) IN
          /\ body' = r.body
          /\ touched' = r.touched
          /\ postComments' = r.posts
          /\ activeNeedlessSpaces' = computeNeedlessSpacesOverrides(r.body)
          /\ pc' = "printing"
          /\ UNCHANGED out1
  /\ idx' = 1
  /\ docs' = <<>>
  /\ UNCHANGED <<opts, src, pass, raw, levels, emitted>>

\* The comments printStatement appends to the lines of the statement, with
\* the lines of the document they land on; first is the document line of the
\* statement's first line
CommentRows(index, lines, comment, post, o, first) ==
  (IF comment = NoComment THEN <<>>
   ELSE <<[stmt |-> index, post |-> FALSE, origin |-> comment.origin,
           text |-> formattedComment(comment, o),
           row |-> first + targetIndex(lines, comment) - 1]>>)
  \o (IF post = NoComment THEN <<>>
      ELSE <<[stmt |-> index, post |-> TRUE, origin |-> post.origin,
              text |-> formattedComment(post, o),
              row |-> first + Len(lines) - 1]>>)

EmittedComments(index, statement, o, overrides, post, first) ==
  IF statement.chain.present THEN <<>>
  ELSE IF statement.tokens = <<>> /\ statement.trailingComment = NoComment THEN <<>>
  ELSE CommentRows(index, statementLines(statement, o, overrides, post # NoComment),
                   statement.trailingComment, post, o, first)

\* The text of the rendered lines
TextOf(lines) == [i \in 1..Len(lines) |-> AsText(lines[i])]

\* postComments.get(statement) of takePostComment
PostCommentOf(posts, index) ==
  IF index \in DOMAIN posts THEN posts[index] ELSE NoComment

\* The document with the statement's text behind its hardlines
Pushed(all, post, first) ==
  /\ docs' = all
  /\ postComments' = IF body[idx].chain.present THEN postComments
                      ELSE MapDelete(postComments, idx)
  /\ out1' = IF idx = Len(body) /\ pass = 1 THEN all ELSE out1
  /\ emitted' = emitted \o EmittedComments(idx, body[idx], opts, activeNeedlessSpaces,
                                           post, first)

\* The print callback for statement idx, with the hardlines before it
PrintStatement ==
  /\ pc = "printing"
  /\ idx <= Len(body)
  /\ Pushed(docs \o TextOf(BlankLines(GapBefore(body, idx) - 1))
                 \o TextOf(print(body[idx], opts, activeNeedlessSpaces,
                                 PostCommentOf(postComments, idx))),
            PostCommentOf(postComments, idx),
            Len(docs) + Max(0, GapBefore(body, idx) - 1) + 1)
  /\ idx' = idx + 1
  /\ pc' = IF idx = Len(body) THEN "done" ELSE "printing"
  /\ UNCHANGED <<opts, src, pass, raw, levels, body, touched, activeNeedlessSpaces>>

\* The formatted document is formatted again
Reformat ==
  /\ pc = "done"
  /\ pass = 1
  /\ src' = out1
  /\ pass' = 2
  /\ pc' = "start"
  /\ emitted' = <<>>
  /\ UNCHANGED <<opts, raw, levels, body, touched, postComments, activeNeedlessSpaces,
                 idx, docs, out1>>

Next == Parse \/ PrintProgram \/ PrintStatement \/ Reformat

Spec == Init /\ [][Next]_vars

-----------------------------------------------------------------------------
(* One invocation on its own, as a function of the text and the options *)

\* The print callbacks of printProgram from statement index on
RECURSIVE PrintAll(_, _, _, _, _, _)
PrintAll(statements, posts, overrides, o, index, printed) ==
  IF index > Len(statements) THEN printed
  ELSE PrintAll(statements, posts, overrides, o, index + 1,
                printed \o TextOf(BlankLines(GapBefore(statements, index) - 1))
                        \o TextOf(print(statements[index], o, overrides,
                                        PostCommentOf(posts, index))))

\* printProgram of the program with the given body
PrintBody(prepared, o) ==
  PrintAll(prepared.body, prepared.posts, computeNeedlessSpacesOverrides(prepared.body),
           o, 1, <<>>)

\* The body parseAbap gives for the statements of the tokenizer
ParsedBody(statements) == convertStatements(statements, computeIndentationLevels(statements))

\* The document one invocation prints for the text
format(text, o) ==
  IF ParsedBody(Tokenize(text)) = <<>> THEN <<>>
  ELSE PrintBody(applyClosingBracketsPosition(ParsedBody(Tokenize(text)), <<>>), o)

-----------------------------------------------------------------------------
(* Two invocations: the steps of another invocation between the steps of  *)
(* this one.  The table activeNeedlessSpaces is a variable of the printer *)
(* module, keyed by token objects: after printProgram of the other        *)
(* invocation it holds no token of this document.                         *)

PrintProgramOther ==
  /\ pc = "printing"
  /\ activeNeedlessSpaces' = <<>>
  /\ UNCHANGED <<opts, src, pass, pc, raw, levels, body, touched, postComments, idx, docs,
                 out1, emitted>>

InitShared ==
  /\ src \in AssignBlocks \cup LiteralBlocks \cup EmptyCalls
  /\ opts \in PeriodOptions
  /\ pass = 1
  /\ pc = "start"
  /\ raw = <<>>
  /\ levels = <<>>
  /\ body = <<>>
  /\ touched = {}
  /\ postComments = <<>>
  /\ activeNeedlessSpaces = <<>>
  /\ idx = 0
  /\ docs = <<>>
  /\ out1 = <<>>
  /\ emitted = <<>>

NextShared == Parse \/ PrintProgram \/ PrintStatement \/ PrintProgramOther

SpecShared == InitShared /\ [][NextShared]_vars

-----------------------------------------------------------------------------
(* The formatting run over chained statements *)

\* The lines of a text given as items: a token with the spaces before it
\* (pre < 0: on a new line, at column 6), or a comment that ends the line
RECURSIVE LayOut(_, _, _, _)
LayOut(items, k, lines, cur) ==
  IF k > Len(items)
  THEN IF cur = <<>> THEN lines ELSE Append(lines, CodeLine(cur))
  ELSE IF items[k].kind = "comment"
  THEN IF items[k].value = <<>> THEN LayOut(items, k + 1, lines, cur)
       ELSE LayOut(items, k + 1, Append(lines, WithComment(CodeLine(cur), items[k].value)),
                   <<>>)
  ELSE IF cur = <<>>
  THEN LayOut(items, k + 1, lines,
              <<Tok(items[k].text, IF lines = <<>> THEN 0 ELSE 6)>>)
  ELSE IF items[k].pre < 0
  THEN LayOut(items, k + 1, Append(lines, CodeLine(cur)),
              <<Tok(items[k].text, 6)>>)
  ELSE LayOut(items, k + 1, lines,
              Append(cur, Tok(items[k].text,
                              Last(cur).col + Len(Last(cur).text) + items[k].pre)))

Word(text, pre) == [kind |-> "token", text |-> text, pre |-> pre]

Remark(value) == [kind |-> "comment", value |-> value]

\* A chain of two entries, "kw: a [type i], bb [type i]." : typed entries
\* may break behind "type"; the comma and the period stand behind their
\* entry, one space apart or on a line of their own; a comment may follow
\* the comma and the period; the second entry may start a new line
ChainText(kw, typed, innerBreak, comma, c1, second, period, c2) ==
  LayOut(<<Word(kw, 0), Word(":", 0), Word("a", 1)>>
         \o (IF typed THEN <<Word("type", 1), Word("i", IF innerBreak THEN -1 ELSE 1)>>
             ELSE <<>>)
         \o <<Word(",", comma), Remark(c1), Word("bb", second)>>
         \o (IF typed THEN <<Word("type", 1), Word("i", 1)>> ELSE <<>>)
         \o <<Word(".", period), Remark(c2)>>,
         1, <<>>, <<>>)

ChainTexts ==
  {ChainText(kw, typed, innerBreak, comma, c1, second, period, c2) :
     kw \in {"data", "clear", "CLEAR"}, typed \in BOOLEAN, innerBreak \in BOOLEAN,
     comma \in -1..1, c1 \in {<<>>, <<Q, "x">>}, second \in {-1, 1},
     period \in -1..1, c2 \in {<<>>, <<Q, "y">>}}

\* The chain on its own, or inside "if a." and "endif."
ChainDocs ==
  ChainTexts
  \cup {<<CodeLine(<<Tok("if", 0), Tok("a", 3), Tok(".", 4)>>)>> \o text
         \o <<CodeLine(<<Tok("endif", 0), Tok(".", 5)>>)>> : text \in ChainTexts}

ChainOptions ==
  {[DefaultOptions EXCEPT !.abapSpaceBeforePeriod = p, !.abapKeywordCase = c,
                          !.abapChainFormatting = f] :
     p \in BOOLEAN, c \in {"upper", "lower"}, f \in {"preserve", "expand"}}

InitChain ==
  /\ src \in ChainDocs
  /\ opts \in ChainOptions
  /\ pass = 1
  /\ pc = "start"
  /\ raw = <<>>
  /\ levels = <<>>
  /\ body = <<>>
  /\ touched = {}
  /\ postComments = <<>>
  /\ activeNeedlessSpaces = <<>>
  /\ idx = 0
  /\ docs = <<>>
  /\ out1 = <<>>
  /\ emitted = <<>>

SpecChain == InitChain /\ [][Next]_vars

\* A chain of two entries behind two tokens, "call method: a, bb.", laid
\* out as the chains above
PrefixedChains ==
  {LayOut(<<Word("call", 0), Word("method", 1), Word(":", 0), Word("a", 1),
            Word(",", comma), Remark(c1), Word("bb", second), Word(".", period),
            Remark(c2)>>, 1, <<>>, <<>>) :
     comma \in -1..1, c1 \in {<<>>, <<Q, "x">>}, second \in {-1, 1},
     period \in -1..1, c2 \in {<<>>, <<Q, "y">>}}

InitPrefixed ==
  /\ src \in PrefixedChains
  /\ opts \in ChainOptions
  /\ pass = 1
  /\ pc = "start"
  /\ raw = <<>>
  /\ levels = <<>>
  /\ body = <<>>
  /\ touched = {}
  /\ postComments = <<>>
  /\ activeNeedlessSpaces = <<>>
  /\ idx = 0
  /\ docs = <<>>
  /\ out1 = <<>>
  /\ emitted = <<>>

SpecPrefixed == InitPrefixed /\ [][Next]_vars

\* The texts of the tokens of the lines, in upper case, in reading order
RECURSIVE UpperTexts(_)
UpperTexts(lines) ==
  IF lines = <<>> THEN <<>>
  ELSE UpperTexts(Front(lines))
       \o [k \in 1..Len(Last(lines).toks) |-> toUpperCase(Last(lines).toks[k].text)]

\* C28: a printed chain holds the tokens of the source chain in the source
\* order: the tokens in front of the colon, the colon, and the tokens of
\* every member
ColonKept ==
  (pc = "done" /\ pass = 1 /\ Len(body) = 1 /\ body[1].chain.present) =>
    UpperTexts(docs) = UpperTexts(src)

\* The first token of the first entry of chain statement i
FirstEntryToken(i) == EntryTokens(body[i], body[i].chain.entries[1])[1]

\* C11: the first line of a printed chain is the keyword and the colon at
\* the base indent; the first entry follows one space behind the colon,
\* unless the keyword is CLEAR, FREE, SORT, CATCH or TRY: then the first
\* line holds the keyword and the colon only, and the first entry starts
\* the next line at the base indent plus one indent width
ChainFirstEntryPlaced ==
  \A i \in 1..Len(body) :
    (pc = "done" /\ body[i].chain.present /\ body[i].chain.entries[1].type = "entry") =>
      /\ docs[i].toks[1].col = body[i].indentLevel * DefaultTabWidth
      /\ toUpperCase(docs[i].toks[1].text) = toUpperCase(body[i].chain.keyword.text)
      /\ docs[i].toks[2].text = ":"
      /\ docs[i].toks[2].col = docs[i].toks[1].col + Len(docs[i].toks[1].text)
      /\ IF toUpperCase(body[i].chain.keyword.text)
              \in {"CLEAR", "FREE", "SORT", "CATCH", "TRY"}
         THEN /\ Len(docs[i].toks) = 2
              /\ docs[i].cmt = <<>>
              /\ docs[i + 1].toks[1].text = FirstEntryToken(i).text
              /\ docs[i + 1].toks[1].col = (body[i].indentLevel + 1) * DefaultTabWidth
         ELSE /\ Len(docs[i].toks) > 2
              /\ docs[i].toks[3].text = FirstEntryToken(i).text
              /\ docs[i].toks[3].col = docs[i].toks[2].col + 2

\* An indented CLEAR chain and an indented DATA chain have been printed
ChainPrinted ==
  /\ pc = "done"
  /\ pass = 1
  /\ \E i \in 1..Len(body) :
       /\ body[i].chain.present
       /\ body[i].indentLevel = 1
       /\ toUpperCase(body[i].chain.keyword.text) = "CLEAR"
       /\ Len(docs[i + 1].toks) > 1

-----------------------------------------------------------------------------
(* The formatting run when the tokenizer gives nothing to format *)

RECURSIVE Concat(_)
Concat(pieces) == IF pieces = <<>> THEN "" ELSE Head(pieces) \o Concat(Tail(pieces))

\* line.trim(): the text of the line from its first character on
trimLine(line) ==
  Concat(IF line.toks = <<>> THEN line.cmt
         ELSE CodePieces(line.toks, 1, line.toks[1].col)
              \o (IF line.cmt = <<>> THEN <<>>
                  ELSE [j \in 1..(line.ccol - CodeWidth(line)) |-> SP] \o line.cmt))

\* line.length
LineLength(line) == IF line.cmt = <<>> THEN CodeWidth(line) ELSE line.ccol + Len(line.cmt)

\* The statement buildFallbackAst makes of line index + 1
FallbackStatement(line, lineNumber) ==
  [kind            |-> "Fallback",
   tokens          |-> IF trimLine(line) = "" THEN <<>>
                       ELSE <<[id |-> <<lineNumber, 1>>, text |-> trimLine(line),
                               role |-> "word", line |-> lineNumber, col |-> 0,
                               ecol |-> LineLength(line), brk |-> FALSE]>>,
   loc             |-> [startLine |-> lineNumber, startColumn |-> 0,
                        endLine |-> lineNumber],
   indentLevel     |-> 0,
   trailingComment |-> NoComment,
   chain           |-> NoChain]

buildFallbackAst(text) == [i \in 1..Len(text) |-> FallbackStatement(text[i], i)]

\* Whether convertStatements, from index on, reaches a colon group whose
\* keyword statement has no tokens: convertColonGroup throws
RECURSIVE ColonGroupThrows(_, _)
ColonGroupThrows(statements, index) ==
  IF index > Len(statements) THEN FALSE
  ELSE IF isStandaloneComment(statements[index]) /\ isTrailingComment(statements[index])
          /\ index < Len(statements)
  THEN ColonGroupThrows(statements, index + 1)
  ELSE IF statements[index].colon # NoColon
  THEN statements[index].toks = <<>>
       \/ ColonGroupThrows(statements, GroupEnd(statements, index, statements[index].colon))
  ELSE ColonGroupThrows(statements, index + 1)

\* What the tokenizer gives: an exception, no object, no file, or statements
\* in which the keyword statement of a chain has no tokens
UpstreamOutcomes == {"throws", "noObject", "noFile", "zeroTokens"}

HasChain(statements) == \E i \in 1..Len(statements) : statements[i].colon # NoColon

\* The statements with the tokens of the first statement of a chain dropped
WithoutKeywordTokens(statements) ==
  [i \in 1..Len(statements) |->
     IF statements[i].colon # NoColon
        /\ \A j \in 1..(i - 1) : statements[j].colon = NoColon
     THEN [statements[i] EXCEPT !.toks = <<>>]
     ELSE statements[i]]

\* parseAbap when the tokenizer fails: the catch block and the two early
\* returns build the fallback program
ParseFallback ==
  /\ pc = "start"
  /\ \E outcome \in UpstreamOutcomes :
       /\ outcome = "zeroTokens" => HasChain(Tokenize(src))
       /\ raw' = IF outcome = "zeroTokens" THEN WithoutKeywordTokens(Tokenize(src))
                 ELSE <<>>
  /\ levels' = <<>>
  /\ body' = IF raw' = <<>> \/ ColonGroupThrows(raw', 1)
             THEN buildFallbackAst(src)
             ELSE convertStatements(raw', computeIndentationLevels(raw'))
  /\ pc' = "parsed"
  /\ UNCHANGED <<opts, src, pass, touched, postComments, activeNeedlessSpaces, idx, docs,
                 out1, emitted>>

\* A statement split over lines, the keyword on a line of its own, with an
\* optional empty line and comment line above
SplitBlocks ==
  {(IF blank THEN <<CodeLine(<<>>)>> ELSE <<>>)
   \o (IF c = <<>> THEN <<>> ELSE <<WithComment(CodeLine(<<>>), c)>>)
   \o <<CodeLine(<<Tok(kw, c1)>>), AssignLine("bb", g)>> :
     blank \in BOOLEAN, c \in AboveComments, kw \in {"if", "IF", "clear", "a"},
     c1 \in 0..2, g \in 1..MaxGap}

FallbackDocs == SplitBlocks \cup IfBlocks \cup Calls \cup ChainTexts

InitFallback ==
  /\ src \in FallbackDocs
  /\ opts \in CaseOptions
  /\ pass = 1
  /\ pc = "start"
  /\ raw = <<>>
  /\ levels = <<>>
  /\ body = <<>>
  /\ touched = {}
  /\ postComments = <<>>
  /\ activeNeedlessSpaces = <<>>
  /\ idx = 0
  /\ docs = <<>>
  /\ out1 = <<>>
  /\ emitted = <<>>

NextFallback == ParseFallback \/ PrintProgram \/ PrintStatement

SpecFallback == InitFallback /\ [][NextFallback]_vars

\* C12: when the tokenizer fails or yields no object or file, the output
\* has as many lines as the source, and each line is the source line with
\* its leading and trailing white space removed
FallbackVerbatim ==
  (pc = "done" /\ raw = <<>>) =>
    /\ Len(docs) = Len(src)
    /\ \A i \in 1..Len(src) : trimLine(docs[i]) = trimLine(src[i])

\* C13: when the keyword statement of a chain has no tokens, nothing is
\* built and nothing is printed
ZeroTokenChainFatal ==
  (raw # <<>> /\ ColonGroupThrows(raw, 1)) => (body = <<>> /\ docs = <<>>)

-----------------------------------------------------------------------------
(* The formatting run over statements with empty lines between them *)

\* The assignment with its period on the next line
SplitAssign(ident) ==
  <<CodeLine(SubSeq(AssignLine(ident, 1).toks, 1, 3)), CodeLine(<<Tok(".", 0)>>)>>

\* Two assignments with empty lines and an optional comment line between
\* them, as in the fixture; the period of the second may stand on a line
\* of its own
SpacedBlocks ==
  {<<AssignLine("a", 1)>> \o BlankLines(b1)
   \o (IF c = <<>> THEN <<>> ELSE <<[toks |-> <<>>, cmt |-> c, ccol |-> 0]>>)
   \o BlankLines(b2) \o (IF split THEN SplitAssign(i2) ELSE <<AssignLine(i2, 1)>>) :
     b1 \in 0..MaxGap, b2 \in 0..MaxGap, c \in {<<>>, <<Q, "u">>, <<"*", "u">>},
     i2 \in Idents, split \in BOOLEAN}

InitSpaced ==
  /\ src \in {[i \in 1..Len(text) |-> AsText(text[i])] : text \in SpacedBlocks}
  /\ opts \in PeriodOptions
  /\ pass = 1
  /\ pc = "start"
  /\ raw = <<>>
  /\ levels = <<>>
  /\ body = <<>>
  /\ touched = {}
  /\ postComments = <<>>
  /\ activeNeedlessSpaces = <<>>
  /\ idx = 0
  /\ docs = <<>>
  /\ out1 = <<>>
  /\ emitted = <<>>

SpecSpaced == InitSpaced /\ [][Next]_vars

-----------------------------------------------------------------------------
(* The formatting run over an assignment above an indented assignment *)

IndentedLine(line, c) ==
  [line EXCEPT !.toks = [k \in 1..Len(line.toks) |->
                           [line.toks[k] EXCEPT !.col = line.toks[k].col + c]]]

\* "a = <gap> literal." above an assignment that starts at column c
IndentedBlocks ==
  {<<LiteralLine(lit, g), IndentedLine(AssignLine(ident, 1), c)>> :
     lit \in {"1", "10"}, g \in 1..MaxGap, ident \in Idents, c \in 0..(MaxGap + 3)}

InitIndented ==
  /\ src \in IndentedBlocks
  /\ opts \in PeriodOptions
  /\ pass = 1
  /\ pc = "start"
  /\ raw = <<>>
  /\ levels = <<>>
  /\ body = <<>>
  /\ touched = {}
  /\ postComments = <<>>
  /\ activeNeedlessSpaces = <<>>
  /\ idx = 0
  /\ docs = <<>>
  /\ out1 = <<>>
  /\ emitted = <<>>

SpecIndented == InitIndented /\ [][Next]_vars

-----------------------------------------------------------------------------
(* adjustClosingBracketsInTokens applied twice to one token list *)

BracketTexts == {"a", "(", ")", "##P"}

\* The tokens with the given texts; breaks[k] is whether a line break
\* follows token k in the source, and the last token ends the source
BracketTokens(texts, breaks) ==
  [k \in 1..Len(texts) |->
     [line |-> 1 + Cardinality({j \in 1..(k - 1) : breaks[j]}),
      col  |-> 2 * (k - 1),
      text |-> texts[k],
      role |-> RoleOf(texts[k]),
      id   |-> <<1, k>>,
      ecol |-> 2 * (k - 1) + Len(texts[k]),
      brk  |-> k < Len(texts) /\ breaks[k]]]

\* The token lists of a statement of MaxGap tokens and its period
BracketLists ==
  {BracketTokens(texts \o <<PERIOD>>, breaks) :
     texts \in [1..MaxGap -> BracketTexts], breaks \in [1..MaxGap -> BOOLEAN]}

InitBrackets ==
  /\ body \in {<<[tokens |-> tokens]>> : tokens \in BracketLists}
  /\ opts = DefaultOptions
  /\ src = <<>>
  /\ pass = 1
  /\ pc = "tokens"
  /\ raw = <<>>
  /\ levels = <<>>
  /\ touched = {}
  /\ postComments = <<>>
  /\ activeNeedlessSpaces = <<>>
  /\ idx = 0
  /\ docs = <<>>
  /\ out1 = <<>>
  /\ emitted = <<>>

\* One application of adjustClosingBracketsInTokens to the token list;
\* touched holds the passes (1, 2) in which it returned true
AdjustTokens ==
  /\ pc = "tokens"
  /\ pass \in {1, 2}
  /\ body' = <<[tokens |-> adjustClosingBracketsInTokens(body[1].tokens).tokens]>>
  /\ touched' = IF adjustClosingBracketsInTokens(body[1].tokens).changed
                THEN touched \cup {pass} ELSE touched
  /\ pass' = pass + 1
  /\ UNCHANGED <<opts, src, pc, raw, levels, postComments, activeNeedlessSpaces, idx, docs,
                 out1, emitted>>

NextBrackets == AdjustTokens

SpecBrackets == InitBrackets /\ [][NextBrackets]_vars

\* No token that is not a comment and stands directly before a closing
\* bracket has its break flag set
NoBreakBeforeBracket(tokens) ==
  \A k \in 2..Len(tokens) :
    (tokens[k].text \in CLOSING_TOKENS /\ tokens[k - 1].role # "comment")
      => ~tokens[k - 1].brk

\* C30: a second application of adjustClosingBracketsInTokens changes no
\* break flag and returns false, and after the first application no token
\* that is not a comment and stands directly before a closing bracket has
\* its break flag set
BracketsSettle ==
  /\ [][pass = 2 => body' = body /\ touched' = touched]_vars
  /\ [](pass >= 2 => NoBreakBeforeBracket(body[1].tokens))

\* The first application has moved a bracket up and set a break behind it,
\* and the second application is done
BracketMovedTwice ==
  /\ pass = 3
  /\ touched = {1}
  /\ \E k \in 2..(Len(body[1].tokens) - 1) :
       body[1].tokens[k].text \in CLOSING_TOKENS /\ body[1].tokens[k].brk
       /\ body[1].tokens[k + 1].line = body[1].tokens[k].line

IsEmptyLine(line) == line.toks = <<>> /\ line.cmt = <<>>

\* The number of empty lines among lines first..last of the text
EmptyLinesIn(text, first, last) ==
  Cardinality({i \in first..last : i \in 1..Len(text) /\ IsEmptyLine(text[i])})

\* The number of empty lines at the head of the text
RECURSIVE LeadingEmptyLines(_)
LeadingEmptyLines(text) ==
  IF text = <<>> \/ ~IsEmptyLine(Head(text)) THEN 0
  ELSE 1 + LeadingEmptyLines(Tail(text))

\* C14: when a statement is printed behind another, the number of empty
\* lines put between them is the number of empty lines between them in
\* the source
BlankLinesPreserved ==
  [][(pc = "printing" /\ idx > 1 /\ idx' = idx + 1) =>
       LeadingEmptyLines(SubSeq(docs', Len(docs) + 1, Len(docs')))
         = EmptyLinesIn(src, body[idx - 1].loc.endLine + 1,
                        body[idx].loc.startLine - 1)]_vars

\* The number of tokens on the first n lines
RECURSIVE TokensOn(_, _)
TokensOn(lines, n) == IF n = 0 THEN 0 ELSE TokensOn(lines, n - 1) + Len(lines[n].toks)

\* The n-th token printed on the lines is the last token of its line
EndsLine(lines, n) == \E j \in 1..Len(lines) : TokensOn(lines, j) = n

\* C20: when a statement is printed, every token of it whose break flag is
\* set is the last token of its line, unless a period or a comma follows
\* it; the tokens of a chain are printed behind its keyword and colon
BreaksKept ==
  [][(pc = "printing" /\ idx' = idx + 1) =>
       \A k \in 1..(Len(body[idx].tokens) - 1) :
         (body[idx].tokens[k].brk /\ body[idx].tokens[k + 1].text \notin {".", ","}) =>
           EndsLine(SubSeq(docs', Len(docs) + 1, Len(docs')),
                    IF body[idx].chain.present THEN k + 2 ELSE k)]_vars

\* The other choice of abapChainFormatting
OtherChainFormatting(o) ==
  [o EXCEPT !.abapChainFormatting = IF @ = "expand" THEN "preserve" ELSE "expand"]

SpacesBefore(line, k) ==
  line.toks[k].col - (line.toks[k - 1].col + Len(line.toks[k - 1].text))

\* C16: in the printed document a period or comma behind another token is
\* attached to it when abapSpaceBeforePeriod is false, and at least one
\* space apart from it when the option is true
PeriodSpacingDecided ==
  pc = "done" =>
    \A i \in 1..Len(docs) : \A k \in 2..Len(docs[i].toks) :
      (docs[i].toks[k].role = "punctuation" /\ docs[i].toks[k].text \in {".", ","}) =>
        IF opts.abapSpaceBeforePeriod THEN SpacesBefore(docs[i], k) >= 1
        ELSE SpacesBefore(docs[i], k) = 0

-----------------------------------------------------------------------------
(* The indentation engine on its own, over well-nested statement lists *)

MaxStatements == 5

\* A statement kind, and whether a blank line stands above the statement
StatementShapes ==
  {[kind |-> k, blank |-> FALSE] :
     k \in {"If", "Else", "EndIf", "Case", "When", "EndCase", "Clear", "Comment"}}
    \cup {[kind |-> "Comment", blank |-> TRUE]}

\* Blocks close in the order they open, ELSE stands in an IF block and WHEN
\* in a CASE block; stack holds the open blocks
RECURSIVE WellNestedFrom(_, _, _)
WellNestedFrom(shapes, i, stack) ==
  IF i > Len(shapes) THEN stack = <<>>
  ELSE LET k == shapes[i].kind IN
       CASE k \in {"If", "Case"} -> WellNestedFrom(shapes, i + 1, Append(stack, k))
         [] k = "Else"    -> stack # <<>> /\ Last(stack) = "If"
                             /\ WellNestedFrom(shapes, i + 1, stack)
         [] k = "When"    -> stack # <<>> /\ Last(stack) = "Case"
                             /\ WellNestedFrom(shapes, i + 1, stack)
         [] k = "EndIf"   -> stack # <<>> /\ Last(stack) = "If"
                             /\ WellNestedFrom(shapes, i + 1, Front(stack))
         [] k = "EndCase" -> stack # <<>> /\ Last(stack) = "Case"
                             /\ WellNestedFrom(shapes, i + 1, Front(stack))
         [] OTHER         -> WellNestedFrom(shapes, i + 1, stack)

WellNested(shapes) == WellNestedFrom(shapes, 1, <<>>)

\* The row of statement i: one statement per line, blank lines as given
RECURSIVE RowOf(_, _)
RowOf(shapes, i) ==
  IF i = 0 THEN 0 ELSE RowOf(shapes, i - 1) + (IF shapes[i].blank THEN 2 ELSE 1)

\* The tokenizer's statements for the shapes
StatementsOf(shapes) ==
  [i \in 1..Len(shapes) |->
     IF shapes[i].kind = "Comment"
     THEN RawComment(<<Q, "x">>, RowOf(shapes, i), 1)
     ELSE [kind |-> shapes[i].kind,
           toks |-> <<[text |-> shapes[i].kind, role |-> "word",
                       row |-> RowOf(shapes, i), col |-> 1],
                      [text |-> ".", role |-> "punctuation",
                       row |-> RowOf(shapes, i), col |-> 1 + Len(shapes[i].kind)]>>,
           pragmas |-> <<>>, cmt |-> NoRawComment]]

InitIndent ==
  /\ \E n \in 1..MaxStatements :
       \E shapes \in [1..n -> StatementShapes] :
         /\ WellNested(shapes)
         /\ raw = StatementsOf(shapes)
  /\ pc = "start"
  /\ levels = <<>>
  /\ opts = DefaultOptions
  /\ src = <<>>
  /\ pass = 1
  /\ body = <<>>
  /\ touched = {}
  /\ postComments = <<>>
  /\ activeNeedlessSpaces = <<>>
  /\ idx = 0
  /\ docs = <<>>
  /\ out1 = <<>>
  /\ emitted = <<>>

\* parseAbap's call of computeIndentationLevels
ComputeLevels ==
  /\ pc = "start"
  /\ levels' = computeIndentationLevels(raw)
  /\ pc' = "levels"
  /\ UNCHANGED <<opts, src, pass, raw, body, touched, postComments, activeNeedlessSpaces,
                 idx, docs, out1, emitted>>

NextIndent == ComputeLevels

SpecIndent == InitIndent /\ [][NextIndent]_vars

-----------------------------------------------------------------------------
(* The indentation engine over SELECT statements: Select needs no         *)
(* ENDSELECT, SelectLoop is closed by one                                  *)

SelectShapes ==
  {[kind |-> k, blank |-> FALSE] : k \in {"Select", "SelectLoop", "EndSelect", "Clear"}}

\* Every ENDSELECT closes a looping SELECT, and every looping SELECT is closed
RECURSIVE LoopsClosedFrom(_, _, _)
LoopsClosedFrom(shapes, i, open) ==
  IF i > Len(shapes) THEN open = 0
  ELSE IF shapes[i].kind = "SelectLoop" THEN LoopsClosedFrom(shapes, i + 1, open + 1)
  ELSE IF shapes[i].kind = "EndSelect"
  THEN open > 0 /\ LoopsClosedFrom(shapes, i + 1, open - 1)
  ELSE LoopsClosedFrom(shapes, i + 1, open)

InitSelect ==
  /\ \E n \in 1..MaxStatements :
       \E shapes \in [1..n -> SelectShapes] :
         /\ LoopsClosedFrom(shapes, 1, 0)
         /\ raw = StatementsOf(shapes)
  /\ pc = "start"
  /\ levels = <<>>
  /\ opts = DefaultOptions
  /\ src = <<>>
  /\ pass = 1
  /\ body = <<>>
  /\ touched = {}
  /\ postComments = <<>>
  /\ activeNeedlessSpaces = <<>>
  /\ idx = 0
  /\ docs = <<>>
  /\ out1 = <<>>
  /\ emitted = <<>>

SpecSelect == InitSelect /\ [][NextIndent]_vars

\* C17: the statement behind a SELECT is one level deeper than the SELECT
\* exactly when the SELECT is a looping one (closed by its ENDSELECT); an
\* ENDSELECT stands one level back
SelectDepth ==
  pc = "levels" =>
    \A i \in 1..(Len(raw) - 1) :
      raw[i].kind \in {"Select", "SelectLoop"} =>
        levels[i + 1] = Max(0, levels[i]
                               + (IF raw[i].kind = "SelectLoop" THEN 1 ELSE 0)
                               - (IF raw[i + 1].kind = "EndSelect" THEN 1 ELSE 0))

-----------------------------------------------------------------------------
(* Comments above a branch of a block *)

\* The depth before statement i: one more for every opener, one less
\* for every closer and every branch statement before it
RECURSIVE DepthBefore(_, _)
DepthBefore(statements, i) ==
  IF i <= 1 THEN 0
  ELSE (IF statements[i - 1].kind \in DEDENT_BEFORE \cup MIDDLE_KEYWORDS
        THEN Max(DepthBefore(statements, i - 1) - 1, 0)
        ELSE DepthBefore(statements, i - 1))
       + (IF statements[i - 1].kind \in INDENT_AFTER THEN 1 ELSE 0)

\* A comment that has no blank line above it
FollowingComment(statements, i) ==
  isStandaloneComment(statements[i]) /\ ~hasBlankLineAbove(statements, i)

\* The first statement behind i that is not a comment without a blank line
\* above it; 0 when there is none
FirstBehind(statements, i) ==
  IF \E t \in (i + 1)..Len(statements) : ~FollowingComment(statements, t)
  THEN CHOOSE t \in (i + 1)..Len(statements) :
         /\ ~FollowingComment(statements, t)
         /\ \A j \in (i + 1)..(t - 1) : FollowingComment(statements, j)
  ELSE 0

\* The comment has a blank line above it, and behind it and the comments
\* that follow it without a blank line stands a MIDDLE statement
Leads(statements, i) ==
  /\ isStandaloneComment(statements[i])
  /\ hasBlankLineAbove(statements, i)
  /\ FirstBehind(statements, i) # 0
  /\ statements[FirstBehind(statements, i)].kind \in MIDDLE_KEYWORDS

\* C18: a comment with a blank line above it that leads up to a MIDDLE
\* statement, the comments between them and the MIDDLE statement all get
\* the level of the MIDDLE statement, one below the depth and never below
\* 0; every other comment gets the depth
CommentsAligned ==
  pc = "levels" =>
    \A i \in 1..Len(raw) :
      isStandaloneComment(raw[i]) =>
        IF \E a \in 1..i : Leads(raw, a) /\ i < FirstBehind(raw, a)
        THEN /\ levels[i] = Max(DepthBefore(raw, i) - 1, 0)
             /\ \A a \in 1..i : (Leads(raw, a) /\ i < FirstBehind(raw, a)) =>
                   levels[FirstBehind(raw, a)] = levels[i]
        ELSE levels[i] = DepthBefore(raw, i)

\* Inside a block, a comment with a blank line above it and a comment
\* behind it stand above a MIDDLE statement
CommentsLead ==
  /\ pc = "levels"
  /\ \E a \in 1..Len(raw) :
       /\ Leads(raw, a)
       /\ FirstBehind(raw, a) > a + 1
       /\ DepthBefore(raw, a) > 0
       /\ levels[a] < DepthBefore(raw, a)

-----------------------------------------------------------------------------
(* Properties *)

\* The invocation has printed every statement
Printed == pc = "done"

\* The override table of the invocation is set
OverridesSet == pc \in {"printing", "done"} /\ Len(body) > 0

TokenTexts(tokens) == [k \in 1..Len(tokens) |-> tokens[k].text]

\* C1: formatting the formatter's own output again changes nothing: the
\* second output equals the first, line for line
FormatIdempotent == (pass = 2 /\ Printed) => docs = out1

\* The closer of the block that statement i opens or stands in: the first
\* DEDENT_BEFORE statement behind i that no opener between them claims; 0
\* when there is none
RECURSIVE CloserFrom(_, _, _)
CloserFrom(statements, j, open) ==
  IF j > Len(statements) THEN 0
  ELSE LET k == statements[j].kind IN
       IF k \in DEDENT_BEFORE
       THEN IF open = 0 THEN j ELSE CloserFrom(statements, j + 1, open - 1)
       ELSE IF k \in INDENT_AFTER \ MIDDLE_KEYWORDS
       THEN CloserFrom(statements, j + 1, open + 1)
       ELSE CloserFrom(statements, j + 1, open)

MatchingCloser(statements, i) == CloserFrom(statements, i + 1, 0)

\* C2: every statement strictly between an INDENT_AFTER opener of level N
\* and its matching DEDENT_BEFORE closer has a level of at least N + 1; the
\* branch statements (ELSE, WHEN) and the comments, which the engine puts on
\* the opener's level on purpose, are left out of the comparison
IndentMonotone ==
  pc = "levels" =>
    \A i \in 1..Len(raw) : \A k \in 1..Len(raw) :
      ( /\ raw[i].kind \in INDENT_AFTER
        /\ i < k
        /\ k < MatchingCloser(raw, i)
        /\ raw[k].kind \notin MIDDLE_KEYWORDS
        /\ ~isStandaloneComment(raw[k]) )
      => levels[k] >= levels[i] + 1

\* C21: every closer stands on the level of its matching opener, and the
\* statement behind a complete block stands on the opener's level again
ClosersMatchOpeners ==
  pc = "levels" =>
    \A i \in 1..Len(raw) :
      (raw[i].kind \in INDENT_AFTER \ MIDDLE_KEYWORDS /\ MatchingCloser(raw, i) # 0) =>
        /\ levels[MatchingCloser(raw, i)] = levels[i]
        /\ ( /\ MatchingCloser(raw, i) < Len(raw)
             /\ raw[MatchingCloser(raw, i) + 1].kind \notin DEDENT_BEFORE \cup MIDDLE_KEYWORDS
             /\ ~isStandaloneComment(raw[MatchingCloser(raw, i) + 1]) )
           => levels[MatchingCloser(raw, i) + 1] = levels[i]

\* The number of comments of the source with the value
SourceComments(value) == Cardinality({i \in 1..Len(src) : src[i].cmt = value})

\* The number of times a comment of the source with the value is printed,
\* on its own or as a part of a merged comment
PrintedComments(value) ==
  Cardinality({p \in (1..Len(emitted)) \X (1..3) :
                 p[2] <= Len(emitted[p[1]].origin) /\ emitted[p[1]].origin[p[2]] = value})

\* C22: when the document is printed, every comment of the source has been
\* printed exactly once
CommentsKept ==
  (pc = "done" /\ pass = 1) =>
    \A i \in 1..Len(src) :
      src[i].cmt # <<>> => PrintedComments(src[i].cmt) = SourceComments(src[i].cmt)

\* The source line of the last token of the entry
EntryEndLine(statement, entry) == statement.tokens[entry.last].line

\* C23: in a chain, a comment behind the last token of a member on the
\* member's source line, with another member behind it, is the trailing
\* comment of that member, and no entry of its own
MemberKeepsComment ==
  (pc = "parsed" /\ pass = 1) =>
    \A i \in 1..Len(body) : \A n \in 1..Len(body[i].chain.entries) :
      ( /\ body[i].chain.entries[n].type = "entry"
        /\ body[i].chain.entries[n].first <= body[i].chain.entries[n].last
        /\ \E m \in 1..Len(body[i].chain.entries) :
             /\ body[i].chain.entries[m].type = "entry"
             /\ body[i].chain.entries[m].first > body[i].chain.entries[n].last
        /\ src[EntryEndLine(body[i], body[i].chain.entries[n])].cmt # <<>>
        /\ \A k \in 1..Len(body[i].tokens) :
             body[i].tokens[k].line = EntryEndLine(body[i], body[i].chain.entries[n])
               => k <= body[i].chain.entries[n].last ) =>
        /\ body[i].chain.entries[n].trailingComment.value
             = src[EntryEndLine(body[i], body[i].chain.entries[n])].cmt
        /\ \A m \in 1..Len(body[i].chain.entries) :
             body[i].chain.entries[m].type = "comment" =>
               body[i].chain.entries[m].comment.value
                 # src[EntryEndLine(body[i], body[i].chain.entries[n])].cmt

\* A token list with the break flags put aside
WithoutBreaks(tokens) == [k \in 1..Len(tokens) |-> [tokens[k] EXCEPT !.brk = FALSE]]

AllTokens == UNION {Range(body[i].tokens) : i \in 1..Len(body)}

\* The white space in front of the token on its source line
SourceSpacesBefore(token) ==
  LET before == {t \in AllTokens : t.line = token.line /\ t.col < token.col}
  IN IF before = {} THEN token.col
     ELSE token.col - SetMax({t.ecol : t \in before})

\* C4: an override is never more than the number of spaces in front of the
\* token on its source line
OverridesNeverWiden ==
  OverridesSet =>
    \A t \in AllTokens :
      t.id \in DOMAIN activeNeedlessSpaces
        => activeNeedlessSpaces[t.id] <= SourceSpacesBefore(t)

\* C5: a token that is not first on its line and needs a space by the base
\* rule is rendered behind at least one space when it has an override
MandatorySpaceKept ==
  OverridesSet =>
    \A i \in 1..Len(body) : \A k \in 2..Len(body[i].tokens) :
      LET t == body[i].tokens[k]
          p == body[i].tokens[k - 1]
      IN ( /\ ~p.brk
           /\ needsSpaceBefore(t, TRUE, p, opts)
           /\ t.id \in DOMAIN activeNeedlessSpaces )
         => getSpacesBeforeToken(t, TRUE, p, opts, activeNeedlessSpaces) >= 1

RuleMinimum(token, previous) == IF needsSpaceBefore(token, TRUE, previous, opts) THEN 1 ELSE 0

\* C24: a token that is not first on its line and has an override is
\* rendered behind max(override, ruleMinimum) spaces
SpacesAreMaximum ==
  OverridesSet =>
    \A i \in 1..Len(body) : \A k \in 2..Len(body[i].tokens) :
      ( /\ ~body[i].tokens[k - 1].brk
        /\ body[i].tokens[k].id \in DOMAIN activeNeedlessSpaces )
      => getSpacesBeforeToken(body[i].tokens[k], TRUE, body[i].tokens[k - 1], opts,
                              activeNeedlessSpaces)
           = Max(activeNeedlessSpaces[body[i].tokens[k].id],
                 RuleMinimum(body[i].tokens[k], body[i].tokens[k - 1]))

\* The start indices of the runs the loop over one x position cuts the list into
RECURSIVE RunStarts(_, _, _, _)
RunStarts(list, startIndex, xPosKey, all) ==
  IF startIndex > Len(list) THEN {}
  ELSE {startIndex}
       \cup RunStarts(list, RunEnd(list, startIndex, startIndex, xPosKey \div 2, all),
                      xPosKey, all)

NothingDone == [ov |-> <<>>, grouped |-> {}, processed |-> {}]

RunLength(list, startIndex, xPosKey, all) ==
  RunEnd(list, startIndex, startIndex, xPosKey \div 2, all) - startIndex

\* C25: processSequence on a run of exactly two tokens sets no override and
\* marks no token grouped
PairsDiscarded ==
  (pc = "printing" /\ idx = 1 /\ pass = 1) =>
    \A xPosKey \in XPosKeys(collectTokenPositions(body)) :
      \A s \in RunStarts(SortTokenPos(TokensOfXPos(collectTokenPositions(body), xPosKey)),
                         1, xPosKey, collectTokenPositions(body)) :
        RunLength(SortTokenPos(TokensOfXPos(collectTokenPositions(body), xPosKey)),
                  s, xPosKey, collectTokenPositions(body)) = 2
        => processSequence(SortTokenPos(TokensOfXPos(collectTokenPositions(body), xPosKey)),
                           s, s + 2, xPosKey % 2 # 0, NothingDone) = NothingDone

\* spacesToSpare of processSequence for the run list[startIndex .. endIndex - 1]
spacesToSpareOf(list, startIndex, endIndex, isSpecialAlignment) ==
  SetMin({IF isSpecialAlignment
          THEN list[i].startIndexInLine
               - SetMax({0} \cup {list[j].prevEndColumn :
                                    j \in {n \in startIndex..(endIndex - 1) :
                                             ~list[n].isFirstInLine}})
               - 1
          ELSE Max(0, list[i].spacesLeft) - 1 : i \in startIndex..(endIndex - 1)})

\* The run that starts at startIndex has a member that is first on its
\* line, or no space to spare
RunToSkip(list, startIndex, endIndex, isSpecialAlignment) ==
  \/ \E i \in startIndex..(endIndex - 1) : list[i].isFirstInLine
  \/ spacesToSpareOf(list, startIndex, endIndex, isSpecialAlignment) <= 0

RunSkipped(list, startIndex, xPosKey, all) ==
  RunToSkip(list, startIndex, RunEnd(list, startIndex, startIndex, xPosKey \div 2, all),
            xPosKey % 2 # 0)
  => processSequence(list, startIndex,
                     RunEnd(list, startIndex, startIndex, xPosKey \div 2, all),
                     xPosKey % 2 # 0, NothingDone).ov = <<>>

\* C26: a run with a member that is first on its line, or with no space to
\* spare, sets no override
LeadingRunsSkipped ==
  (pc = "printing" /\ idx = 1 /\ pass = 1) =>
    \A xPosKey \in XPosKeys(collectTokenPositions(body)) :
      \A s \in RunStarts(SortTokenPos(TokensOfXPos(collectTokenPositions(body), xPosKey)),
                         1, xPosKey, collectTokenPositions(body)) :
        RunSkipped(SortTokenPos(TokensOfXPos(collectTokenPositions(body), xPosKey)),
                   s, xPosKey, collectTokenPositions(body))

\* Only lines led by a bridging keyword stand between the two TokenPos
BridgedOnly(first, second, all) ==
  \A line \in (first.lineNumber + 1)..(second.lineNumber - 1) :
    /\ FirstTokenOfLine(all, line) # 0
    /\ isSequenceBridgeKeyword(all[FirstTokenOfLine(all, line)])

RunAdjacent(list, startIndex, xPosKey, all) ==
  \A i \in startIndex..(RunEnd(list, startIndex, startIndex, xPosKey \div 2, all) - 2) :
    \/ list[i + 1].lineNumber <= list[i].lineNumber + 1
    \/ BridgedOnly(list[i], list[i + 1], all)

\* C27: two consecutive members of a run stand on adjacent source lines, or
\* only lines led by ELSE, ELSEIF or WHEN stand between them
RunsAdjacent ==
  (pc = "printing" /\ idx = 1 /\ pass = 1) =>
    \A xPosKey \in XPosKeys(collectTokenPositions(body)) :
      \A s \in RunStarts(SortTokenPos(TokensOfXPos(collectTokenPositions(body), xPosKey)),
                         1, xPosKey, collectTokenPositions(body)) :
        RunAdjacent(SortTokenPos(TokensOfXPos(collectTokenPositions(body), xPosKey)),
                    s, xPosKey, collectTokenPositions(body))

\* The blank columns between two tokens of one source line
BlankColumns(previous, token) == token.col - (previous.col + Len(previous.text))

\* C29: for two adjacent tokens of one source line, computeOriginalSpaces and
\* spacesLeft are the number of blank columns between them
OriginalSpacesCounted ==
  OverridesSet =>
    \A i \in 1..Len(body) : \A k \in 2..Len(body[i].tokens) :
      ( /\ body[i].tokens[k - 1].line = body[i].tokens[k].line
        /\ body[i].tokens[k - 1].ecol
             = body[i].tokens[k - 1].col + Len(body[i].tokens[k - 1].text) )
      => /\ computeOriginalSpaces(body[i].tokens[k], TRUE, body[i].tokens[k - 1])
              = BlankColumns(body[i].tokens[k - 1], body[i].tokens[k])
         /\ collectFromTokens(body[i].tokens, i - 1)[k].spacesLeft
              = BlankColumns(body[i].tokens[k - 1], body[i].tokens[k])

\* C6: a source comment printed on its own (not concatenated with another)
\* is printed as it stands in the source, or with one space put behind the
\* sign, which happens only when abapSpaceAfterCommentSign is not false and
\* a letter or digit follows the sign; a pseudo-comment is printed unchanged
CommentSignSpacing ==
  \A n \in 1..Len(emitted) :
    LET e == emitted[n] IN
    Len(e.origin) = 1 =>
      LET s == e.origin[1] IN
      \/ e.text = s
      \/ /\ opts.abapSpaceAfterCommentSign # FALSE
         /\ Len(s) >= 2
         /\ isLetterOrDigit(s[2])
         /\ e.text = <<s[1], SP>> \o Tail(s)

\* Scenario 1: the argument is followed by a comment; bracket and period
\* stand alone on the next line
Scenario1 ==
  /\ pass = 1
  /\ \E above \in AboveComments, inner \in InnerComments \ {<<>>}, follow \in BOOLEAN :
       src = CallText(above, inner, <<>>, FALSE, TRUE, FALSE, follow)

\* The comment behind the argument in the source of scenario 1
Scenario1Comment ==
  LET i == CHOOSE j \in 1..Len(src) : src[j].toks # <<>> /\ src[j].toks[1].text = "f"
  IN src[i].cmt

\* The call stands on one line of the output: bracket and period behind the
\* argument, the period behind the bracket at the given distance, the
\* comment at the end of the line
Scenario1OneLine(distance) ==
  \E i \in 1..Len(docs) :
    /\ TokenTexts(docs[i].toks) = <<"f", "(", "a", ")", ".">>
    /\ docs[i].toks[5].col = docs[i].toks[4].col + 1 + distance
    /\ docs[i].cmt = formatCommentValue(Scenario1Comment, opts)
    /\ \A j \in (1..Len(docs)) \ {i} :
         \A k \in 1..Len(docs[j].toks) : docs[j].toks[k].text \notin {"f", "(", ")"}

PseudoKeptApart ==
  \A n \in 1..Len(emitted) :
    LET e == emitted[n] IN
    e.post =>
      LET line   == docs[e.row]
          tokens == body[e.stmt].tokens
          period == PeriodIndexFrom(tokens, Len(tokens))
      IN /\ Len(e.origin) = 1
         /\ line.cmt = e.text
         /\ line.toks # <<>>
         /\ line.toks[1].text = PERIOD
         /\ period >= 2
         /\ tokens[period - 1].brk
         /\ \A m \in 1..Len(emitted) :
              (emitted[m].stmt = e.stmt /\ ~emitted[m].post)
                => Len(emitted[m].origin) = 1 /\ emitted[m].row # e.row

\* The pair (i, i + 1) of the merge pass: statement i was touched and the
\* comment of statement i + 1 is an inline comment on the last source line
\* of statement i.  t is the touched set, b the statements before the pass
MergePair(b, t, i) ==
  /\ i < Len(b)
  /\ i \in t
  /\ b[i + 1].trailingComment # NoComment
  /\ b[i + 1].trailingComment.inline
  /\ b[i + 1].trailingComment.line = b[i].loc.endLine
  /\ extractCommentParts(b[i + 1].trailingComment).defined

\* The comment of statement i as the pass finds it at pair (i, i + 1): the
\* pair before has taken it away when it was a pair of the pass
CommentFound(b, t, i) ==
  IF i > 1 /\ MergePair(b, t, i - 1) THEN NoComment ELSE b[i].trailingComment

IsPseudo(comment) == comment # NoComment /\ extractCommentParts(comment).isPseudo

\* The text "a; b" of the two comments (b alone when a is no comment)
JoinedText(current, next) ==
  IF current = NoComment THEN extractCommentParts(next).value
  ELSE extractCommentParts(current).value \o <<";", SP>> \o extractCommentParts(next).value

\* What the merge pass does at a pair without a pseudo-comment: current's
\* comment becomes "current; next", current's comment being the one the pass
\* finds (none when the pair before took it away), and the comment next had
\* is gone from next (next has a comment afterwards only as the current of
\* the pair that follows)
PairsMerged(b, t, after) ==
  \A i \in 1..Len(b) :
    ( /\ MergePair(b, t, i)
      /\ ~IsPseudo(CommentFound(b, t, i))
      /\ ~IsPseudo(b[i + 1].trailingComment) )
    => /\ extractCommentParts(after[i].trailingComment).value
            = JoinedText(CommentFound(b, t, i), b[i + 1].trailingComment)
       /\ \/ after[i + 1].trailingComment = NoComment
          \/ MergePair(b, t, i + 1)

AlignedBlock ==
  /\ pass = 1
  /\ src \in AssignBlocks
  /\ \A i \in 1..3 : src[i].toks[2].col = src[1].toks[2].col

\* C10: the operators of an aligned block are rendered in one column, one
\* space behind the longest left-hand identifier
BlockStaysAligned ==
  (AlignedBlock /\ Printed) =>
    /\ Len(docs) = 3
    /\ \A i \in 1..3 :
         /\ docs[i].toks[2].text = "="
         /\ docs[i].toks[2].col = SetMax({Len(src[j].toks[1].text) : j \in 1..3}) + 1

====
